---- MODULE Spec2Model ----
(***************************************************************************)
(* Model of the accreditrack backend: the item/assignment workflow of      *)
(* backend/assignments and backend/evidence, and the frequency-based       *)
(* compliance engine of backend/api.                                       *)
(*                                                                         *)
(* Spec            one assignment with its ItemStatus rows, every handler  *)
(*                 of ItemStatusViewSet and evidence.EvidenceViewSet.create*)
(*                 taken as one atomic step (one request at a time).       *)
(* SpecConc        two item requests in flight at once; a handler is split *)
(*                 at its database accesses (get_object, then save).       *)
(* SpecCompliance  one indicator, its evidence and the compliance deriver, *)
(*                 one request at a time, with the calendar advancing.     *)
(* SpecSubmitConc  two evidence submissions in flight at once, split at    *)
(*                 their database accesses.                                *)
(***************************************************************************)
EXTENDS Integers, Sequences, FiniteSets, TLC

VARIABLES
    item_status,          \* ItemStatus.status of every item of the assignment
    completion_percent,   \* ItemStatus.completion_percent
    assignment_status,    \* Assignment.status
    item_evidence,        \* number of evidence.Evidence rows per item
    assignment_updates,   \* rows of AssignmentUpdate (the only log table of the app)
    last,                 \* the last request handled and its HTTP response
    req,                  \* SpecConc: the requests in flight
    indicator,            \* api.Indicator: schedule_type, normalized_frequency, created_at, status
    evidence,             \* rows of api.Evidence of the indicator, in insertion order
    today,                \* date.today() of the server
    status_history,       \* rows of IndicatorStatusHistory of the indicator
    evidence_periods,     \* rows of EvidencePeriod of the indicator
    sub,                  \* SpecSubmitConc: the evidence submissions in flight
    sections,             \* SpecImport: names of the Section rows of the project
    standards,            \* SpecImport: <<section name, standard name>> of the Standard rows
    indicators,           \* SpecImport: the Indicator rows of the project
    cur,                  \* SpecImport: the last import run, its file and its CSVImportResult
    upload,               \* SpecImport: the CSV file the user uploads
    classifier,           \* SpecImport: what the deployment's text classifier answers
    walk,                 \* SpecWalk: one run of the while loop of _get_expected_periods
    calc,                 \* SpecFunctions: the last call of a pure function and its result
    txn                   \* SpecImportConc: the import transactions in flight

workflow_vars == <<item_status, completion_percent, assignment_status, item_evidence,
                   assignment_updates>>

compliance_vars == <<indicator, evidence, today, status_history, evidence_periods>>

import_vars == <<sections, standards, indicators, cur, upload, classifier>>

function_vars == <<walk, calc, txn>>

vars == <<workflow_vars, last, req, compliance_vars, sub, import_vars, function_vars>>

None == "None"

(***************************************************************************)
(* Bounds of the model                                                     *)
(***************************************************************************)
MaxEvidence == 1          \* evidence rows kept per item

\* the ItemStatus rows of the assignment (ids of the model)
Items == {1}

(***************************************************************************)
(* assignments/models.py                                                   *)
(***************************************************************************)
AssignmentStatusChoices ==
    {"NOT_STARTED", "IN_PROGRESS", "PENDING_REVIEW", "COMPLETED", "VERIFIED"}

ItemStatusChoices ==
    {"NOT_STARTED", "IN_PROGRESS", "PENDING_REVIEW", "COMPLETED", "VERIFIED", "REJECTED"}

\* django SmallIntegerField: the range the serializer accepts
SmallIntMin == -32768
SmallIntMax == 32767

(***************************************************************************)
(* Actors: what the identity collaborator knows of the requesting user.    *)
(* coordinator is "DepartmentCoordinator of the assignment's department".  *)
(***************************************************************************)
Actors ==
    { [name |-> "coordinator", is_superuser |-> FALSE, roles |-> {"DepartmentCoordinator"}],
      [name |-> "qa_admin",    is_superuser |-> FALSE, roles |-> {"QAAdmin"}],
      [name |-> "superadmin",  is_superuser |-> TRUE,  roles |-> {}],
      [name |-> "coord_qa",    is_superuser |-> FALSE, roles |-> {"DepartmentCoordinator", "QAAdmin"}],
      [name |-> "viewer",      is_superuser |-> FALSE, roles |-> {}] }

is_qa_admin(user) ==
    user.is_superuser \/ (user.roles \cap {"SuperAdmin", "QAAdmin"}) # {}

is_coordinator(user) == "DepartmentCoordinator" \in user.roles

(***************************************************************************)
(* ItemStatusViewSet.partial_update: the transition checks                 *)
(***************************************************************************)
valid_transitions ==
    [ NOT_STARTED    |-> {"IN_PROGRESS"},
      IN_PROGRESS    |-> {"PENDING_REVIEW", "NOT_STARTED"},
      PENDING_REVIEW |-> {"IN_PROGRESS"} ]

\* lines 308-320: TRUE when the coordinator branch answers 400
coordinator_rejects(user, current_status, new_status) ==
    /\ is_coordinator(user) /\ ~is_qa_admin(user)
    /\ current_status \in DOMAIN valid_transitions
    /\ new_status \notin valid_transitions[current_status]

qa_rejects_mut(user, current_status, new_status) ==
    /\ is_qa_admin(user) /\ new_status \in {"VERIFIED"}
    /\ current_status # "PENDING_REVIEW"

\* lines 322-328: TRUE when the QA branch answers 400
qa_rejects(user, current_status, new_status) ==
    /\ is_qa_admin(user) /\ new_status \in {"VERIFIED", "REJECTED"}
    /\ current_status # "PENDING_REVIEW"

\* ItemStatusSerializer.is_valid on the PATCH payload
serializer_is_valid(data) ==
    /\ data.status = None \/ data.status \in ItemStatusChoices
    /\ \A k \in DOMAIN data.completion_percent :
           /\ data.completion_percent[k] >= SmallIntMin
           /\ data.completion_percent[k] <= SmallIntMax

\* the HTTP status partial_update answers, from the row it read
partial_update_code(user, current_status, data) ==
    IF ~(is_qa_admin(user) \/ is_coordinator(user)) THEN 403
    ELSE IF data.status # None /\ coordinator_rejects(user, current_status, data.status) THEN 400
    ELSE IF data.status # None /\ qa_rejects(user, current_status, data.status) THEN 400
    ELSE IF ~serializer_is_valid(data) THEN 400
    ELSE 200

submit_for_review_code(user, current_status) ==
    IF ~is_coordinator(user) THEN 403
    ELSE IF current_status \notin {"IN_PROGRESS", "NOT_STARTED"} THEN 400
    ELSE 200

verify_code(user, current_status) ==
    IF ~is_qa_admin(user) THEN 403
    ELSE IF current_status # "PENDING_REVIEW" THEN 400
    ELSE 200

mark_in_progress_code(user) ==
    IF ~(is_coordinator(user) \/ is_qa_admin(user)) THEN 403 ELSE 200

(***************************************************************************)
(* assignments/services.py                                                 *)
(***************************************************************************)
\* the status auto_update_assignment_status leaves on the assignment
auto_update_assignment_status(status, statuses, has_evidence) ==
    IF DOMAIN statuses = {} THEN status
    ELSE IF (\A i \in DOMAIN statuses : statuses[i] = "Verified") /\ status # "Completed"
         THEN "Completed"
    ELSE IF (\E i \in DOMAIN statuses : statuses[i] = "Submitted") /\ status = "NotStarted"
         THEN "InProgress"
    ELSE IF has_evidence /\ status = "NotStarted" THEN "InProgress"
    ELSE status

has_evidence(ev) == \E i \in Items : ev[i] > 0

(***************************************************************************)
(* PATCH payloads offered to partial_update                                *)
(***************************************************************************)
PatchStatuses == ItemStatusChoices \cup {None, "BOGUS"}
\* completion_percent of a payload: <<>> when the key is absent, else <<value>>
PatchPercents == {<<>>, <<150>>}
PatchData == [status : PatchStatuses, completion_percent : PatchPercents]

Response(op, user, item, requested, code, old) ==
    [op |-> op, actor |-> user.name, item |-> item, req |-> requested,
     code |-> code, old |-> old]

\* the values of the variables a specification does not use
NoIndicator == [schedule_type |-> "one_time", normalized_frequency |-> "",
                created_at |-> <<2024, 1, 15>>, status |-> "not_compliant"]

NoSubmission == [pc |-> "idle", op |-> None, period_start |-> <<>>, period_end |-> <<>>,
                 status |-> None, new_status |-> None]

\* CSVImportResult.__init__
NoImport == [file |-> [headers |-> {}, rows |-> <<>>], fresh |-> FALSE,
             run_ai_enrichment |-> FALSE,
             sections_created |-> 0, standards_created |-> 0,
             indicators_created |-> 0, indicators_updated |-> 0,
             rows_skipped |-> 0, errors |-> <<>>]

DatabaseEmpty ==
    /\ sections = {}
    /\ standards = {}
    /\ indicators = {}
    /\ cur = NoImport

\* ai_analysis_service without the OpenAI library or without an API key
NoClassifier == [kind |-> "absent", schedule_type |-> <<>>,
                 normalized_frequency |-> <<>>, confidence_score |-> <<>>]

\* no call of _get_expected_periods is running
NoWalk == [frequency |-> "", created |-> <<>>, end_date |-> <<>>, periods |-> <<>>,
           current_date |-> <<>>, bounds |-> <<>>, pc |-> "idle"]

\* no function has been called
NoCalc == [op |-> None, args |-> <<>>, result |-> <<>>]

\* no import transaction is open
NoTxn == [pc |-> "idle", file |-> <<>>, row |-> 0,
          section_cache |-> {}, standard_cache |-> {},
          section |-> "", standard |-> "", loaded |-> <<>>, is_new |-> FALSE,
          sections |-> {}, standards |-> {}, inserted |-> {}, updated |-> {},
          needs_rollback |-> FALSE, unseen |-> {}, overlapped |-> FALSE,
          indicators_created |-> 0, indicators_updated |-> 0, errors |-> {}]

FunctionsDormant ==
    /\ walk = NoWalk
    /\ calc = NoCalc
    /\ txn = [p \in {1, 2} |-> NoTxn]

ImportDormant ==
    /\ FunctionsDormant
    /\ sections = {}
    /\ standards = {}
    /\ indicators = {}
    /\ cur = NoImport
    /\ upload = NoImport.file
    /\ classifier = NoClassifier

ComplianceDormant ==
    /\ ImportDormant
    /\ indicator = NoIndicator
    /\ evidence = <<>>
    /\ today = <<2024, 1, 15>>
    /\ status_history = <<>>
    /\ evidence_periods = {}
    /\ sub = [p \in {1, 2} |-> NoSubmission]

\* a request slot with no request in flight
Idle == [pc |-> "idle", op |-> None, actor |-> None, item |-> 0,
         data |-> [status |-> None, completion_percent |-> <<>>],
         status |-> None, completion_percent |-> 0, assignment_status |-> None,
         code |-> 0]

(***************************************************************************)
(* Initial state: AssignmentViewSet.create has made the assignment and     *)
(* bulk-created its ItemStatus rows.                                       *)
(***************************************************************************)
Init ==
    /\ item_status = [i \in Items |-> "NOT_STARTED"]
    /\ completion_percent = [i \in Items |-> 0]
    /\ assignment_status \in AssignmentStatusChoices
    /\ item_evidence = [i \in Items |-> 0]
    /\ assignment_updates = <<>>
    /\ last = [op |-> "create", actor |-> "qa_admin", item |-> 0, req |-> None,
               code |-> 201, old |-> None]
    /\ req = [p \in {1, 2} |-> Idle]
    /\ ComplianceDormant

(***************************************************************************)
(* Spec: the handlers, one request at a time                               *)
(***************************************************************************)
partial_update(user, item, data) ==
    LET code == partial_update_code(user, item_status[item], data)
        new_statuses == IF data.status = None THEN item_status
                        ELSE [item_status EXCEPT ![item] = data.status]
    IN  /\ last' = Response("partial_update", user, item, data.status, code, item_status[item])
        /\ IF code = 200
           THEN /\ item_status' = new_statuses
                /\ completion_percent' =
                       IF data.completion_percent = <<>> THEN completion_percent
                       ELSE [completion_percent EXCEPT ![item] = data.completion_percent[1]]
                /\ assignment_status' = auto_update_assignment_status(
                       assignment_status, new_statuses, has_evidence(item_evidence))
           ELSE UNCHANGED <<item_status, completion_percent, assignment_status>>
        /\ UNCHANGED <<function_vars, import_vars, item_evidence, assignment_updates, req, compliance_vars, sub>>

submit_for_review(user, item) ==
    LET code == submit_for_review_code(user, item_status[item])
        new_statuses == [item_status EXCEPT ![item] = "PENDING_REVIEW"]
    IN  /\ last' = Response("submit_for_review", user, item, "PENDING_REVIEW", code,
                            item_status[item])
        /\ IF code = 200
           THEN /\ item_status' = new_statuses
                /\ assignment_status' = auto_update_assignment_status(
                       assignment_status, new_statuses, has_evidence(item_evidence))
           ELSE UNCHANGED <<item_status, assignment_status>>
        /\ UNCHANGED <<function_vars, import_vars, completion_percent, item_evidence, assignment_updates, req, compliance_vars, sub>>

verify(user, item) ==
    LET code == verify_code(user, item_status[item])
        new_statuses == [item_status EXCEPT ![item] = "VERIFIED"]
    IN  /\ last' = Response("verify", user, item, "VERIFIED", code, item_status[item])
        /\ IF code = 200
           THEN /\ item_status' = new_statuses
                /\ completion_percent' = [completion_percent EXCEPT ![item] = 100]
                /\ assignment_status' = auto_update_assignment_status(
                       assignment_status, new_statuses, has_evidence(item_evidence))
           ELSE UNCHANGED <<item_status, completion_percent, assignment_status>>
        /\ UNCHANGED <<function_vars, import_vars, item_evidence, assignment_updates, req, compliance_vars, sub>>

mark_in_progress(user, item) ==
    LET code == mark_in_progress_code(user)
        new_statuses == [item_status EXCEPT ![item] = "IN_PROGRESS"]
    IN  /\ last' = Response("mark_in_progress", user, item, "IN_PROGRESS", code,
                            item_status[item])
        /\ IF code = 200
           THEN /\ item_status' = new_statuses
                /\ assignment_status' = auto_update_assignment_status(
                       assignment_status, new_statuses, has_evidence(item_evidence))
           ELSE UNCHANGED <<item_status, assignment_status>>
        /\ UNCHANGED <<function_vars, import_vars, completion_percent, item_evidence, assignment_updates, req, compliance_vars, sub>>

\* evidence/views.py EvidenceViewSet.create; payload_ok is the outcome of the
\* file/note checks and of EvidenceSerializer.is_valid
evidence_create_code(user, payload_ok) ==
    IF ~(is_qa_admin(user) \/ is_coordinator(user)) THEN 403
    ELSE IF ~payload_ok THEN 400
    ELSE 201

\* lines 138-140
evidence_assignment_status(status) ==
    IF status = "NOT_STARTED" THEN "IN_PROGRESS" ELSE status

evidence_item_status_mut(status) ==
    IF status \in {"NOT_STARTED", "REJECTED"} THEN "IN_PROGRESS" ELSE status

\* lines 142-145
evidence_item_status(status) ==
    IF status = "NOT_STARTED" THEN "IN_PROGRESS" ELSE status

evidence_create(user, item, payload_ok) ==
    LET code == evidence_create_code(user, payload_ok)
    IN  /\ item_evidence[item] < MaxEvidence
        /\ last' = Response("evidence_create", user, item, None, code, item_status[item])
        /\ IF code = 201
           THEN /\ item_evidence' = [item_evidence EXCEPT ![item] = @ + 1]
                /\ assignment_status' = evidence_assignment_status(assignment_status)
                /\ item_status' = [item_status EXCEPT ![item] = evidence_item_status(@)]
           ELSE UNCHANGED <<item_evidence, assignment_status, item_status>>
        /\ UNCHANGED <<function_vars, import_vars, completion_percent, assignment_updates, req, compliance_vars, sub>>

Next ==
    \/ \E user \in Actors, item \in Items, payload_ok \in BOOLEAN :
           evidence_create(user, item, payload_ok)
    \/ \E user \in Actors, item \in Items, data \in PatchData : partial_update(user, item, data)
    \/ \E user \in Actors, item \in Items : submit_for_review(user, item)
    \/ \E user \in Actors, item \in Items : verify(user, item)
    \/ \E user \in Actors, item \in Items : mark_in_progress(user, item)

Spec == Init /\ [][Next]_vars

(***************************************************************************)
(* SpecConc: two item requests in flight.  get_object() reads the ItemStatus*)
(* row (and its assignment) into the handler's memory; the checks run on    *)
(* that copy and save() writes the copy back.  No handler takes a row lock  *)
(* or runs in a transaction.                                                *)
(***************************************************************************)
Procs == {1, 2}

User(name) == CHOOSE u \in Actors : u.name = name

ConcInit ==
    /\ item_status \in [Items -> ItemStatusChoices]
    /\ completion_percent = [i \in Items |-> 0]
    /\ assignment_status \in {"NOT_STARTED", "IN_PROGRESS"}
    /\ item_evidence = [i \in Items |-> 0]
    /\ assignment_updates = <<>>
    /\ last = [op |-> "create", actor |-> "qa_admin", item |-> 0, req |-> None,
               code |-> 201, old |-> None]
    /\ req = [p \in Procs |-> Idle]
    /\ ComplianceDormant

\* item_status = self.get_object(); assignment = item_status.assignment
get_object(p, op, user, item, data) ==
    /\ req[p].pc = "idle"
    /\ req' = [req EXCEPT ![p] =
                 [pc |-> "loaded", op |-> op, actor |-> user.name, item |-> item,
                  data |-> data,
                  status |-> item_status[item],
                  completion_percent |-> completion_percent[item],
                  assignment_status |-> assignment_status,
                  code |-> 0]]
    /\ UNCHANGED <<function_vars, import_vars, item_status, completion_percent, assignment_status, item_evidence,
                   assignment_updates, last, compliance_vars, sub>>

\* the response code of the handler, computed on the copy it loaded
handler_code(r) ==
    CASE r.op = "partial_update"    -> partial_update_code(User(r.actor), r.status, r.data)
      [] r.op = "submit_for_review" -> submit_for_review_code(User(r.actor), r.status)
      [] r.op = "verify"            -> verify_code(User(r.actor), r.status)
      [] r.op = "mark_in_progress"  -> mark_in_progress_code(User(r.actor))

\* the status and completion_percent that save() writes
saved_status(r) ==
    CASE r.op = "partial_update"    -> IF r.data.status = None THEN r.status ELSE r.data.status
      [] r.op = "submit_for_review" -> "PENDING_REVIEW"
      [] r.op = "verify"            -> "VERIFIED"
      [] r.op = "mark_in_progress"  -> "IN_PROGRESS"

saved_percent(r) ==
    CASE r.op = "partial_update" ->
            IF r.data.completion_percent = <<>> THEN r.completion_percent
            ELSE r.data.completion_percent[1]
      [] r.op = "verify" -> 100
      [] OTHER -> r.completion_percent

\* the checks, save() and auto_update_assignment_status of a loaded request
save(p) ==
    LET r == req[p]
        code == handler_code(r)
        new_statuses == [item_status EXCEPT ![r.item] = saved_status(r)]
        recomputed == auto_update_assignment_status(
                          r.assignment_status, new_statuses, has_evidence(item_evidence))
    IN  /\ r.pc = "loaded"
        /\ req' = [req EXCEPT ![p] = [r EXCEPT !.pc = "done", !.code = code]]
        /\ IF code = 200
           THEN /\ item_status' = new_statuses
                /\ completion_percent' =
                       [completion_percent EXCEPT ![r.item] = saved_percent(r)]
                /\ assignment_status' =
                       IF recomputed # r.assignment_status THEN recomputed
                       ELSE assignment_status
           ELSE UNCHANGED <<item_status, completion_percent, assignment_status>>
        /\ UNCHANGED <<function_vars, import_vars, item_evidence, assignment_updates, last, compliance_vars, sub>>

ConcNext ==
    \/ \E p \in Procs, user \in Actors, item \in Items, data \in PatchData :
           get_object(p, "partial_update", user, item, data)
    \/ \E p \in Procs, user \in Actors, item \in Items :
           get_object(p, "submit_for_review", user, item, Idle.data)
    \/ \E p \in Procs, user \in Actors, item \in Items :
           get_object(p, "verify", user, item, Idle.data)
    \/ \E p \in Procs, user \in Actors, item \in Items :
           get_object(p, "mark_in_progress", user, item, Idle.data)
    \/ \E p \in Procs : save(p)

SpecConc == ConcInit /\ [][ConcNext]_vars

\* two requests have both been answered, and they asked for different statuses
\* of the same item
ConflictingDone(p, q) ==
    /\ p # q
    /\ req[p].pc = "done" /\ req[q].pc = "done"
    /\ req[p].item = req[q].item
    /\ saved_status(req[p]) # saved_status(req[q])

\* C4: of a verify and a reject of the same PENDING_REVIEW item that run
\* concurrently (of any two conflicting QA verdicts), at most one is accepted.
C4_AtMostOneVerdictAccepted ==
    \A p, q \in Procs :
        ( /\ ConflictingDone(p, q)
          /\ req[p].op = "verify"
          /\ req[q].op = "partial_update" /\ req[q].data.status = "REJECTED"
          /\ is_qa_admin(User(req[p].actor)) /\ is_qa_admin(User(req[q].actor)) )
        => ~(req[p].code = 200 /\ req[q].code = 200)

(***************************************************************************)
(* Calendar dates (datetime.date, timedelta, dateutil relativedelta).      *)
(* A date is <<year, month, day>>; NoDate is Python's None.                *)
(***************************************************************************)
NoDate == <<>>

IsLeap(y) == (y % 4 = 0) /\ ((y % 100 # 0) \/ (y % 400 = 0))

DaysInMonth(y, m) ==
    IF m = 2 THEN (IF IsLeap(y) THEN 29 ELSE 28)
    ELSE IF m \in {4, 6, 9, 11} THEN 30 ELSE 31

DateLT(a, b) ==
    \/ a[1] < b[1]
    \/ a[1] = b[1] /\ a[2] < b[2]
    \/ a[1] = b[1] /\ a[2] = b[2] /\ a[3] < b[3]

DateLE(a, b) == a = b \/ DateLT(a, b)

\* date.toordinal() and date.weekday() (Monday is 0)
DaysBeforeYear(y) == (y - 1) * 365 + (y - 1) \div 4 - (y - 1) \div 100 + (y - 1) \div 400

RECURSIVE DaysBeforeMonth(_, _)
DaysBeforeMonth(y, m) ==
    IF m = 1 THEN 0 ELSE DaysBeforeMonth(y, m - 1) + DaysInMonth(y, m - 1)

ToOrdinal(d) == DaysBeforeYear(d[1]) + DaysBeforeMonth(d[1], d[2]) + d[3]

Weekday(d) == (ToOrdinal(d) + 6) % 7

NextDay(d) ==
    IF d[3] < DaysInMonth(d[1], d[2]) THEN <<d[1], d[2], d[3] + 1>>
    ELSE IF d[2] < 12 THEN <<d[1], d[2] + 1, 1>>
    ELSE <<d[1] + 1, 1, 1>>

PrevDay(d) ==
    IF d[3] > 1 THEN <<d[1], d[2], d[3] - 1>>
    ELSE IF d[2] > 1 THEN <<d[1], d[2] - 1, DaysInMonth(d[1], d[2] - 1)>>
    ELSE <<d[1] - 1, 12, 31>>

\* d + timedelta(days=n)
RECURSIVE AddDays(_, _)
AddDays(d, n) ==
    IF 1 <= d[3] + n /\ d[3] + n <= DaysInMonth(d[1], d[2]) THEN <<d[1], d[2], d[3] + n>>
    ELSE IF n > 0
    THEN AddDays(NextDay(<<d[1], d[2], DaysInMonth(d[1], d[2])>>),
                 n - (DaysInMonth(d[1], d[2]) - d[3] + 1))
    ELSE AddDays(PrevDay(<<d[1], d[2], 1>>), n + d[3])

\* d + relativedelta(months=n), n >= 0: the day is clamped to the target month
AddMonths_mut(d, n) ==
    LET total == (d[2] - 1) + n
    IN  <<d[1] + total \div 12, (total % 12) + 1, d[3]>>

AddMonths(d, n) ==
    LET total == (d[2] - 1) + n
        y == d[1] + total \div 12
        m == (total % 12) + 1
        last_day == DaysInMonth(y, m)
    IN  <<y, m, IF d[3] > last_day THEN last_day ELSE d[3]>>

(***************************************************************************)
(* api/scheduling_service.py                                               *)
(***************************************************************************)
\* the frequency labels of the model and what .lower().strip() makes of them
FrequencyLabels ==
    {"Daily", "Weekly", "Bi-weekly", "Monthly", "Quarterly", "Semi-annually", "Annual",
     " YEARLY ", "Every 2 days"}

freq_lower(label) ==
    CASE label = "Daily"         -> "daily"
      [] label = "Weekly"        -> "weekly"
      [] label = "Bi-weekly"     -> "bi-weekly"
      [] label = "Monthly"       -> "monthly"
      [] label = "Quarterly"     -> "quarterly"
      [] label = "Semi-annually" -> "semi-annually"
      [] label = "Annual"        -> "annual"
      [] label = " YEARLY "      -> "yearly"
      [] label = "Every 2 days"  -> "every 2 days"
      [] OTHER                   -> label

calculate_next_due_date(normalized_frequency, reference_date) ==
    IF normalized_frequency = "" THEN NoDate
    ELSE LET f == freq_lower(normalized_frequency)
         IN  IF f \in {"daily", "day"} THEN AddDays(reference_date, 1)
             ELSE IF f \in {"weekly", "week"} THEN AddDays(reference_date, 7)
             ELSE IF f \in {"bi-weekly", "biweekly", "fortnightly"}
                  THEN AddDays(reference_date, 14)
             ELSE IF f \in {"monthly", "month"} THEN AddMonths(reference_date, 1)
             ELSE IF f \in {"quarterly", "quarter"} THEN AddMonths(reference_date, 3)
             ELSE IF f \in {"semi-annually", "semiannually", "semi-annual", "semiannual"}
                  THEN AddMonths(reference_date, 6)
             ELSE IF f \in {"annual", "annually", "yearly", "year"}
                  THEN AddMonths(reference_date, 12)
             ELSE NoDate

\* the end of a two-week period (line 82)
two_week_end_mut(start) == AddDays(start, 14)

two_week_end(start) == AddDays(start, 13)

\* <<period_start, period_end>>
get_period_dates(normalized_frequency, reference_date) ==
    LET f == freq_lower(normalized_frequency)
        y == reference_date[1]
        m == reference_date[2]
    IN  IF f \in {"daily", "day"} THEN <<reference_date, reference_date>>
        ELSE IF f \in {"weekly", "week"}
             THEN LET start == AddDays(reference_date, 0 - Weekday(reference_date))
                  IN  <<start, AddDays(start, 6)>>
        ELSE IF f \in {"bi-weekly", "biweekly", "fortnightly"}
             THEN LET start == AddDays(reference_date, 0 - Weekday(reference_date))
                  IN  <<start, two_week_end(start)>>
        ELSE IF f \in {"monthly", "month"}
             THEN LET start == <<y, m, 1>>
                  IN  IF m = 12 THEN <<start, AddDays(<<y + 1, 1, 1>>, -1)>>
                      ELSE <<start, AddDays(<<y, m + 1, 1>>, -1)>>
        ELSE IF f \in {"quarterly", "quarter"}
             THEN LET quarter == (m - 1) \div 3
                      start == <<y, quarter * 3 + 1, 1>>
                  IN  <<start, AddDays(AddMonths(start, 3), -1)>>
        ELSE IF f \in {"semi-annually", "semiannually", "semi-annual", "semiannual"}
             THEN IF m <= 6 THEN << <<y, 1, 1>>, <<y, 6, 30>> >>
                  ELSE << <<y, 7, 1>>, <<y, 12, 31>> >>
        ELSE IF f \in {"annual", "annually", "yearly", "year"}
             THEN << <<y, 1, 1>>, <<y, 12, 31>> >>
        ELSE <<reference_date, reference_date>>

(***************************************************************************)
(* api/compliance_service.py                                               *)
(***************************************************************************)
\* next_start of an iteration (line 160)
next_start_of_mut(frequency, period, current_date) ==
    calculate_next_due_date(frequency, current_date)

next_start_of(frequency, period, current_date) ==
    calculate_next_due_date(frequency, period[1])

\* the break of the loop (line 161)
loop_breaks_mut(next_start, current_date) ==
    next_start # NoDate /\ DateLE(next_start, current_date)

loop_breaks(next_start, current_date) ==
    next_start = NoDate \/ DateLE(next_start, current_date)

\* the while loop of _get_expected_periods: what it still appends to periods
\* from current_date on, last_period being periods[-1] (<<>> while periods is
\* empty)
RECURSIVE _get_expected_periods_loop(_, _, _, _)
_get_expected_periods_loop(frequency, end_date, last_period, current_date) ==
    IF ~DateLE(current_date, end_date) THEN <<>>
    ELSE LET period == get_period_dates(frequency, current_date)
             appended == IF last_period = <<>> \/ last_period # period
                         THEN <<period>> ELSE <<>>
             next_start == next_start_of(frequency, period, current_date)
         IN  IF loop_breaks(next_start, current_date)
             THEN appended
             ELSE appended \o _get_expected_periods_loop(frequency, end_date,
                                                         period, next_start)

_get_expected_periods(created_date, frequency, end_date) ==
    _get_expected_periods_loop(frequency, end_date, <<>>, created_date)

\* the distinct (period_start, period_end) pairs with both bounds set
_get_actual_evidence_periods_mut(evidence_rows) ==
    { <<evidence_rows[k].period_start, evidence_rows[k].period_end>> :
        k \in { j \in DOMAIN evidence_rows :
                  /\ j = Len(evidence_rows)
                  /\ evidence_rows[j].period_start # NoDate
                  /\ evidence_rows[j].period_end # NoDate } }

_get_actual_evidence_periods(evidence_rows) ==
    { <<evidence_rows[k].period_start, evidence_rows[k].period_end>> :
        k \in { j \in DOMAIN evidence_rows :
                  /\ ~( evidence_rows[j].period_start = NoDate
                        /\ evidence_rows[j].period_end = NoDate )
                  /\ evidence_rows[j].period_start # NoDate
                  /\ evidence_rows[j].period_end # NoDate } }

is_covered_mut(exp, actual_periods) ==
    \E act \in actual_periods : act = exp

is_covered(exp, actual_periods) ==
    \E act \in actual_periods : ~( DateLT(act[2], exp[1]) \/ DateLT(exp[2], act[1]) )

_find_missing_periods(expected_periods, actual_periods) ==
    SelectSeq(expected_periods, LAMBDA exp : ~is_covered(exp, actual_periods))

\* the status chosen from the two lengths (lines 46-52)
recurring_status_mut(n_missing, n_expected) ==
    IF n_missing = 0 THEN "compliant"
    ELSE IF n_missing <= n_expected THEN "in_process"
    ELSE "not_compliant"

recurring_status(n_missing, n_expected) ==
    IF n_missing = 0 THEN "compliant"
    ELSE IF n_missing < n_expected THEN "in_process"
    ELSE "not_compliant"

\* the status of an indicator that is not tracked by periods (line 26)
one_time_status_mut(evidence_count) ==
    IF evidence_count > 1 THEN "compliant" ELSE "not_compliant"

one_time_status(evidence_count) ==
    IF evidence_count > 0 THEN "compliant" ELSE "not_compliant"

calculate_compliance_status(ind, evidence_rows, today_) ==
    IF ind.schedule_type # "recurring" \/ ind.normalized_frequency = ""
    THEN [status |-> one_time_status(Len(evidence_rows)),
          expected_periods |-> <<>>,
          missing_periods |-> <<>>]
    ELSE LET expected == _get_expected_periods(ind.created_at, ind.normalized_frequency, today_)
             actual == _get_actual_evidence_periods(evidence_rows)
             missing == _find_missing_periods(expected, actual)
         IN  [status |-> recurring_status(Len(missing), Len(expected)),
              expected_periods |-> expected,
              missing_periods |-> missing]

\* update_evidence_period_compliance: the EvidencePeriod rows afterwards
update_evidence_period_compliance(ind, evidence_rows, today_, rows) ==
    IF ind.schedule_type # "recurring" \/ ind.normalized_frequency = "" THEN rows
    ELSE LET expected == _get_expected_periods(ind.created_at, ind.normalized_frequency, today_)
             periods == { expected[k] : k \in DOMAIN expected }
             actual_count(period) ==
                 Cardinality({ j \in DOMAIN evidence_rows :
                                 /\ evidence_rows[j].period_start # NoDate
                                 /\ evidence_rows[j].period_end # NoDate
                                 /\ DateLE(evidence_rows[j].period_start, period[2])
                                 /\ DateLE(period[1], evidence_rows[j].period_end) })
             expected_count(period) ==
                 IF \E r \in rows : r.period = period
                 THEN (CHOOSE r \in rows : r.period = period).expected_evidence_count
                 ELSE 1
         IN  { r \in rows : r.period \notin periods }
             \cup { [period |-> period,
                     expected_evidence_count |-> expected_count(period),
                     actual_evidence_count |-> actual_count(period),
                     is_compliant |-> actual_count(period) >= expected_count(period)] :
                    period \in periods }

(***************************************************************************)
(* SpecCompliance: one indicator, as an import or a manual entry made it   *)
(***************************************************************************)
MaxEvidenceRows == 2      \* api.Evidence rows kept for the indicator

\* (schedule_type, normalized_frequency) as analyze_indicator_frequency sets them
IndicatorSchedules ==
    { <<"one_time", "">>, <<"recurring", "">>, <<"one_time", "Monthly">> }
    \cup { <<"recurring", f>> : f \in FrequencyLabels }

CreatedDates == { <<2024, 1, 15>>, <<2024, 1, 31>> }

\* the days on which the server is observed
EvalDates == { <<2024, 1, 14>>, <<2024, 1, 15>>, <<2024, 1, 30>>, <<2024, 1, 31>>,
               <<2024, 2, 1>> }

\* created_at is stored in UTC and read with .date(); date.today() is the
\* server's local date: the two calendars can be a day apart
ClockSkewDays == {0, 1}

\* period bounds a submission may carry
EvidenceBounds ==
    { [period_start |-> NoDate, period_end |-> NoDate],
      [period_start |-> <<2024, 1, 1>>, period_end |-> NoDate],
      [period_start |-> <<2024, 1, 15>>, period_end |-> <<2024, 1, 15>>],
      [period_start |-> <<2024, 1, 31>>, period_end |-> <<2024, 2, 1>>] }

WorkflowDormant ==
    /\ ImportDormant
    /\ item_status = [i \in Items |-> "NOT_STARTED"]
    /\ completion_percent = [i \in Items |-> 0]
    /\ assignment_status = "NOT_STARTED"
    /\ item_evidence = [i \in Items |-> 0]
    /\ assignment_updates = <<>>
    /\ req = [p \in {1, 2} |-> Idle]

ComplianceInit ==
    /\ WorkflowDormant
    /\ \E sched \in IndicatorSchedules, created \in CreatedDates :
          /\ indicator = [schedule_type |-> sched[1], normalized_frequency |-> sched[2],
                          created_at |-> created, status |-> "not_compliant"]
          /\ today \in { t \in EvalDates :
                            \E k \in ClockSkewDays : t = AddDays(created, 0 - k) }
    /\ evidence = <<>>
    /\ status_history = <<>>
    /\ evidence_periods = {}
    /\ sub = [p \in {1, 2} |-> NoSubmission]
    /\ last = [op |-> "import", actor |-> None, item |-> 0, req |-> None,
               code |-> 201, old |-> None]

\* recalculate_indicator_compliance on the indicator object ind, whose status
\* field is the one the handler loaded
recalculated_status_mut(ind, evidence_rows, today_) ==
    calculate_compliance_status(ind, evidence, today_).status

recalculated_status(ind, evidence_rows, today_) ==
    calculate_compliance_status(ind, evidence_rows, today_).status

history_row_mut(old_status, new_status) ==
    [old_status |-> new_status, new_status |-> new_status, changed_by |-> None,
     notes |-> "Auto-updated based on evidence compliance calculation"]

history_row(old_status, new_status) ==
    [old_status |-> old_status, new_status |-> new_status, changed_by |-> None,
     notes |-> "Auto-updated based on evidence compliance calculation"]

recalculate_indicator_compliance_mut(evidence_rows) ==
    LET new_status == recalculated_status(indicator, evidence_rows, today)
    IN  /\ status_history' =
               Append(status_history, history_row(indicator.status, new_status))
        /\ indicator' = [indicator EXCEPT !.status = new_status]
        /\ evidence_periods' =
               update_evidence_period_compliance(indicator, evidence_rows, today,
                                                 evidence_periods)

recalculate_indicator_compliance(evidence_rows) ==
    LET new_status == recalculated_status(indicator, evidence_rows, today)
    IN  /\ IF indicator.status # new_status
           THEN /\ status_history' =
                       Append(status_history, history_row(indicator.status, new_status))
                /\ indicator' = [indicator EXCEPT !.status = new_status]
           ELSE UNCHANGED <<status_history, indicator>>
        /\ evidence_periods' =
               update_evidence_period_compliance(indicator, evidence_rows, today,
                                                 evidence_periods)

\* EvidenceViewSet.perform_create (api/views.py); ok is the outcome of
\* EvidenceSerializer.validate and of the Drive folder lookup
perform_create(bounds, ok) ==
    /\ Len(evidence) < MaxEvidenceRows
    /\ last' = [op |-> "perform_create", actor |-> None, item |-> 0, req |-> None,
                code |-> IF ok THEN 201 ELSE 400, old |-> indicator.status]
    /\ IF ok
       THEN /\ evidence' = Append(evidence, bounds)
            /\ recalculate_indicator_compliance(Append(evidence, bounds))
       ELSE UNCHANGED <<evidence, status_history, indicator, evidence_periods>>
    /\ UNCHANGED <<function_vars, import_vars, workflow_vars, req, today, sub>>

\* submit_digital_form; ok is the outcome of the Drive upload
submit_digital_form(bounds, ok) ==
    /\ Len(evidence) < MaxEvidenceRows
    /\ last' = [op |-> "submit_digital_form", actor |-> None, item |-> 0, req |-> None,
                code |-> IF ok THEN 200 ELSE 500, old |-> indicator.status]
    /\ IF ok
       THEN /\ evidence' = Append(evidence, bounds)
            /\ recalculate_indicator_compliance(Append(evidence, bounds))
       ELSE UNCHANGED <<evidence, status_history, indicator, evidence_periods>>
    /\ UNCHANGED <<function_vars, import_vars, workflow_vars, req, today, sub>>

\* EvidencePeriodViewSet.recalculate: its first update_evidence_period_compliance
\* is repeated, on the same rows, at the end of recalculate_indicator_compliance
recalculate ==
    /\ last' = [op |-> "recalculate", actor |-> None, item |-> 0, req |-> None,
                code |-> 200, old |-> indicator.status]
    /\ recalculate_indicator_compliance(evidence)
    /\ UNCHANGED <<function_vars, import_vars, workflow_vars, req, today, evidence, sub>>

\* the calendar moves on
tick ==
    /\ \E t \in EvalDates : DateLT(today, t) /\ today' = t
    /\ last' = [op |-> "tick", actor |-> None, item |-> 0, req |-> None,
                code |-> 0, old |-> indicator.status]
    /\ UNCHANGED <<function_vars, import_vars, workflow_vars, req, indicator, evidence, status_history,
                   evidence_periods, sub>>

ComplianceNext ==
    \/ \E bounds \in EvidenceBounds, ok \in BOOLEAN : perform_create(bounds, ok)
    \/ \E bounds \in EvidenceBounds, ok \in BOOLEAN : submit_digital_form(bounds, ok)
    \/ recalculate
    \/ tick

SpecCompliance == ComplianceInit /\ [][ComplianceNext]_vars

(***************************************************************************)
(* Python str: lower(), strip(), "pattern in text", re.search(r'\d+', ...)  *)
(***************************************************************************)
UpperLetters == "ABCDEFGHIJKLMNOPQRSTUVWXYZ"
LowerLetters == "abcdefghijklmnopqrstuvwxyz"
Digits == "0123456789"

CharAt(s, i) == SubSeq(s, i, i)

LowerChar(c) ==
    IF \E k \in 1..Len(UpperLetters) : CharAt(UpperLetters, k) = c
    THEN CharAt(LowerLetters, CHOOSE k \in 1..Len(UpperLetters) : CharAt(UpperLetters, k) = c)
    ELSE c

RECURSIVE str_lower(_)
str_lower(s) ==
    IF s = "" THEN "" ELSE LowerChar(CharAt(s, 1)) \o str_lower(SubSeq(s, 2, Len(s)))

RECURSIVE str_strip(_)
str_strip(s) ==
    IF s = "" THEN ""
    ELSE IF CharAt(s, 1) = " " THEN str_strip(SubSeq(s, 2, Len(s)))
    ELSE IF CharAt(s, Len(s)) = " " THEN str_strip(SubSeq(s, 1, Len(s) - 1))
    ELSE s

str_contains(s, pattern) ==
    \E i \in 1..(Len(s) - Len(pattern) + 1) : SubSeq(s, i, i + Len(pattern) - 1) = pattern

has_digit(s) ==
    \E i \in 1..Len(s) : \E k \in 1..Len(Digits) : CharAt(s, i) = CharAt(Digits, k)

(***************************************************************************)
(* api/ai_analysis_service.py.  A result dict is a record; confidence      *)
(* scores are in hundredths.                                               *)
(***************************************************************************)
one_time_patterns ==
    <<"one time", "onetime", "once", "one-time", "initial", "setup",
      "n/a", "na", "not applicable", "none">>

\* the dict recurring_patterns in insertion order: <<normalized, patterns>>
recurring_patterns ==
    << <<"Daily", {"daily", "every day", "each day"}>>,
       <<"Weekly", {"weekly", "every week", "each week"}>>,
       <<"Bi-weekly", {"bi-weekly", "biweekly", "every 2 weeks", "every two weeks",
                       "fortnightly"}>>,
       <<"Monthly", {"monthly", "every month", "each month"}>>,
       <<"Quarterly", {"quarterly", "every quarter", "every 3 months",
                       "every three months"}>>,
       <<"Semi-annually", {"semi-annual", "semiannual", "twice a year", "every 6 months",
                           "every six months"}>>,
       <<"Annual", {"annual", "annually", "yearly", "every year", "each year"}>> >>

FrequencyResult(schedule_type, normalized_frequency, method, confidence_score) ==
    [schedule_type |-> schedule_type, normalized_frequency |-> normalized_frequency,
     method |-> method, confidence_score |-> confidence_score]

\* the branch taken for a text without a known keyword (lines 116-138)
no_keyword_result(frequency_text, text_lower) ==
    IF has_digit(text_lower)
    THEN FrequencyResult("recurring", frequency_text, "rule_based", 70)
    ELSE FrequencyResult("one_time", "", "rule_based", 50)

_rule_based_frequency_detection(frequency_text) ==
    IF frequency_text = "" THEN FrequencyResult("one_time", "", "rule_based", 90)
    ELSE LET text_lower == str_strip(str_lower(frequency_text))
             matching == { k \in DOMAIN recurring_patterns :
                             \E pattern \in recurring_patterns[k][2] :
                                 str_contains(text_lower, pattern) }
         IN  IF \E k \in DOMAIN one_time_patterns :
                    str_contains(text_lower, one_time_patterns[k])
             THEN FrequencyResult("one_time", "", "rule_based", 95)
             ELSE IF matching # {}
             THEN FrequencyResult(
                      "recurring",
                      recurring_patterns[CHOOSE k \in matching : \A j \in matching : k <= j][1],
                      "rule_based", 95)
             ELSE no_keyword_result(frequency_text, text_lower)

\* what the classifier call comes to.  kind: "absent" (the library is not
\* installed or GEMINI_API_KEY is empty), "unreachable" (generate_content
\* raises), "not_json" (json.loads raises), "object" (a JSON object; a key is
\* <<>> when the object lacks it, else <<value>>)
ClassifierAnswer(kind, schedule_type, normalized_frequency, confidence_score) ==
    [kind |-> kind, schedule_type |-> schedule_type,
     normalized_frequency |-> normalized_frequency, confidence_score |-> confidence_score]

ClassifierAnswers ==
    { ClassifierAnswer("absent", <<>>, <<>>, <<>>),
      ClassifierAnswer("unreachable", <<>>, <<>>, <<>>),
      ClassifierAnswer("not_json", <<>>, <<>>, <<>>),
      ClassifierAnswer("object", <<>>, <<>>, <<>>),
      ClassifierAnswer("object", <<"recurring">>, <<"Monthly">>, <<90>>) }

\* data.get(key, default)
dict_get(value, default) == IF value = <<>> THEN default ELSE value[1]

\* <<>> is None, <<result>> a dict
_ai_frequency_analysis(answer) ==
    IF answer.kind # "object" THEN <<>>
    ELSE << FrequencyResult(dict_get(answer.schedule_type, "one_time"),
                            dict_get(answer.normalized_frequency, ""),
                            "ai", dict_get(answer.confidence_score, 50)) >>

\* _rule_based_frequency_detection never returns None, so
\* _default_frequency_result is never reached
analyze_indicator_frequency(frequency_text, answer) ==
    LET rule_based_result == _rule_based_frequency_detection(frequency_text)
    IN  IF rule_based_result.confidence_score > 80 THEN rule_based_result
        ELSE LET ai_result == _ai_frequency_analysis(answer)
             IN  IF ai_result = <<>> THEN rule_based_result ELSE ai_result[1]

(***************************************************************************)
(* api/csv_import_service.py and api/ai_import_enrichment_service.py       *)
(***************************************************************************)
REQUIRED_HEADERS ==
    {"Section", "Standard", "Indicator", "Evidence Required", "Responsible Person",
     "Frequency", "Assigned to", "Compliance Evidence", "Score"}

\* csv_reader.fieldnames; {} is the empty file (fieldnames is None)
_validate_headers_mut(headers) ==
    headers # {}

_validate_headers(headers) ==
    headers # {} /\ \A required \in REQUIRED_HEADERS : required \in headers

project_id == 1

\* the data rows that uploaded files are made of
CsvRow(section, standard, indicator_text, frequency) ==
    [Section |-> section, Standard |-> standard, Indicator |-> indicator_text,
     Frequency |-> frequency]

CsvRows ==
    { CsvRow("Safety", "S1", "R1", "Monthly"),
      CsvRow(" safety ", "S1", "R1 ", ""),
      CsvRow("Safety", "", "R2", "Monthly"),
      CsvRow("Safety", "S1", "  ", "Every 2 days"),
      CsvRow("Safety", "S1", "R2", "Every 2 days"),
      CsvRow("Safety", "S1", "R2", "As needed") }

CellTexts ==
    UNION { {row.Section, row.Standard, row.Indicator, row.Frequency} : row \in CsvRows }

\* str.strip(), str.lower() and analyze_indicator_frequency on the texts of
\* the model, computed once
stripped == [t \in CellTexts |-> str_strip(t)]

lowered == [t \in { stripped[c] : c \in CellTexts } |-> str_lower(t)]

analysis ==
    [f \in { stripped[c] : c \in CellTexts }, answer \in ClassifierAnswers |->
        analyze_indicator_frequency(f, answer)]

\* the hex digest is kept as the hashed string, tagged with the algorithm
generate_indicator_key_static(project, section_name, standard_name, requirement) ==
    <<"sha256",
      ToString(project) \o ":" \o section_name \o ":" \o standard_name \o ":" \o requirement>>

\* the row's required cells are not all filled in (lines 150-156)
required_missing_mut(row) ==
    stripped[row.Section] = ""

required_missing(row) ==
    \/ stripped[row.Section] = ""
    \/ stripped[row.Standard] = ""
    \/ stripped[row.Indicator] = ""

\* Section.objects.filter(project=..., name__iexact=section_name).first()
find_section(names, section_name) ==
    { n \in names : lowered[n] = lowered[section_name] }

\* Standard.objects.filter(section=section, name__iexact=standard_name).first()
find_standard(pairs, section, standard_name) ==
    { q \in pairs : q[1] = section /\ lowered[q[2]] = lowered[standard_name] }

\* Indicator(project=..., indicator_key=...) with the defaults of the model
new_indicator(indicator_key) ==
    [indicator_key |-> indicator_key, section |-> "", standard |-> "", requirement |-> "",
     frequency |-> "", schedule_type |-> "one_time", normalized_frequency |-> "",
     next_due_date |-> NoDate, enriched |-> FALSE]

\* _process_row on a row that has its required cells; st carries the tables,
\* the CSVImportResult and the indicator objects processed so far
_process_row(row, st, answer, today_) ==
    LET section_name == stripped[row.Section]
        standard_name == stripped[row.Standard]
        indicator_text == stripped[row.Indicator]
        frequency == stripped[row.Frequency]
        found_sections == find_section(st.sections, section_name)
        section == IF found_sections = {} THEN section_name
                   ELSE CHOOSE n \in found_sections : TRUE
        found_standards == find_standard(st.standards, section, standard_name)
        standard == IF found_standards = {} THEN standard_name
                    ELSE (CHOOSE q \in found_standards : TRUE)[2]
        indicator_key == generate_indicator_key_static(
                             project_id, section_name, standard_name, indicator_text)
        existing == { ind \in st.indicators : ind.indicator_key = indicator_key }
        is_new == existing = {}
        loaded == IF is_new THEN new_indicator(indicator_key)
                  ELSE CHOOSE ind \in existing : TRUE
        ai_result == analysis[frequency, answer]
        filled == [loaded EXCEPT !.section = section, !.standard = standard,
                                 !.requirement = indicator_text, !.frequency = frequency]
        saved == IF frequency = "" THEN filled
                 ELSE [filled EXCEPT
                         !.schedule_type = ai_result.schedule_type,
                         !.normalized_frequency = ai_result.normalized_frequency,
                         !.enriched = FALSE,
                         !.next_due_date =
                             IF /\ ai_result.schedule_type = "recurring"
                                /\ ai_result.normalized_frequency # ""
                             THEN calculate_next_due_date(ai_result.normalized_frequency, today_)
                             ELSE filled.next_due_date]
    IN  [st EXCEPT
           !.sections = st.sections \cup {section},
           !.standards = st.standards \cup {<<section, standard>>},
           !.indicators = (st.indicators \ existing) \cup {saved},
           !.sections_created = st.sections_created + (IF found_sections = {} THEN 1 ELSE 0),
           !.standards_created = st.standards_created + (IF found_standards = {} THEN 1 ELSE 0),
           !.indicators_created = st.indicators_created + (IF is_new THEN 1 ELSE 0),
           !.indicators_updated = st.indicators_updated + (IF is_new THEN 0 ELSE 1),
           !.processed = Append(st.processed, saved)]

\* the for loop of import_csv from row k on; row k has row_num k + 1
RECURSIVE import_rows(_, _, _, _, _)
import_rows(rows, k, st, answer, today_) ==
    IF k > Len(rows) THEN st
    ELSE import_rows(rows, k + 1,
                     IF required_missing(rows[k])
                     THEN [st EXCEPT !.rows_skipped = st.rows_skipped + 1,
                                     !.errors = Append(st.errors, k + 1)]
                     ELSE _process_row(rows[k], st, answer, today_),
                     answer, today_)

\* what the batch enrichment comes to: "unavailable" (the rule-based
\* fallback runs) or the indicator_type the classifier gives every indicator
EnrichmentAnswers == {"unavailable", "periodic_logging", "one_time"}

\* _rule_based_enrichment: indicator_type
rule_based_indicator_type(obj) ==
    IF obj.schedule_type = "recurring" /\ obj.normalized_frequency # ""
    THEN "periodic_logging" ELSE "one_time"

\* _save_enrichment_data and _apply_enrichment_to_indicator for the object obj:
\* the row of obj afterwards.  Both save with update_fields.
_apply_enrichment_to_indicator(stored, obj, indicator_type, today_) ==
    LET marked == [stored EXCEPT !.enriched = TRUE]
        next_due == IF obj.normalized_frequency = "" THEN NoDate
                    ELSE calculate_next_due_date(obj.normalized_frequency, today_)
    IN  IF indicator_type = "periodic_logging" /\ obj.schedule_type # "recurring"
        THEN [marked EXCEPT !.schedule_type = "recurring",
                            !.next_due_date = IF next_due # NoDate THEN next_due ELSE @]
        ELSE marked

\* enrich_indicators_for_import over the objects objs[k..]
RECURSIVE enrich_indicators_for_import(_, _, _, _, _, _)
enrich_indicators_for_import(objs, k, rows, force, enrichment, today_) ==
    IF k > Len(objs) THEN rows
    ELSE LET obj == objs[k]
             stored == { ind \in rows : ind.indicator_key = obj.indicator_key }
             indicator_type == IF enrichment = "unavailable"
                               THEN rule_based_indicator_type(obj) ELSE enrichment
             after == IF (~force /\ obj.enriched) \/ stored = {} THEN rows
                      ELSE (rows \ stored)
                           \cup { _apply_enrichment_to_indicator(
                                      CHOOSE ind \in stored : TRUE, obj, indicator_type,
                                      today_) }
         IN  enrich_indicators_for_import(objs, k + 1, after, force, enrichment, today_)

(***************************************************************************)
(* SpecImport: one project, CSV imports and enrichment runs one at a time  *)
(***************************************************************************)
MaxRows == 2      \* data rows of an uploaded file

HeaderSets == { REQUIRED_HEADERS, REQUIRED_HEADERS \ {"Score"}, {} }

CsvFiles ==
    [headers : HeaderSets, rows : UNION { [1..n -> CsvRows] : n \in 0..MaxRows }]

ImportInit ==
    /\ item_status = [i \in Items |-> "NOT_STARTED"]
    /\ completion_percent = [i \in Items |-> 0]
    /\ assignment_status = "NOT_STARTED"
    /\ item_evidence = [i \in Items |-> 0]
    /\ assignment_updates = <<>>
    /\ req = [p \in {1, 2} |-> Idle]
    /\ indicator = NoIndicator
    /\ evidence = <<>>
    /\ today = <<2024, 1, 15>>
    /\ status_history = <<>>
    /\ evidence_periods = {}
    /\ sub = [p \in {1, 2} |-> NoSubmission]
    /\ DatabaseEmpty
    /\ FunctionsDormant
    /\ upload \in CsvFiles
    /\ classifier \in ClassifierAnswers
    /\ last = [op |-> "create_project", actor |-> None, item |-> 0, req |-> None,
               code |-> 201, old |-> None]

\* ProjectViewSet.import_csv with a .csv upload, and CSVImportService.import_csv
import_csv(file, run_ai_enrichment, enrichment) ==
    LET start == [sections |-> sections, standards |-> standards,
                  indicators |-> indicators,
                  sections_created |-> 0, standards_created |-> 0,
                  indicators_created |-> 0, indicators_updated |-> 0,
                  rows_skipped |-> 0, errors |-> <<>>, processed |-> <<>>]
        headers_ok == _validate_headers(file.headers)
        done == IF headers_ok THEN import_rows(file.rows, 1, start, classifier, today)
                ELSE [start EXCEPT !.errors = <<0>>]
        code == IF /\ done.errors # <<>>
                   /\ done.indicators_created = 0
                   /\ done.indicators_updated = 0
                THEN 400 ELSE 200
    IN  /\ sections' = done.sections
        /\ standards' = done.standards
        /\ indicators' =
               IF headers_ok /\ run_ai_enrichment /\ done.processed # <<>>
               THEN enrich_indicators_for_import(done.processed, 1, done.indicators,
                                                 FALSE, enrichment, today)
               ELSE done.indicators
        /\ cur' = [file |-> file, fresh |-> indicators = {},
                   run_ai_enrichment |-> run_ai_enrichment,
                   sections_created |-> done.sections_created,
                   standards_created |-> done.standards_created,
                   indicators_created |-> done.indicators_created,
                   indicators_updated |-> done.indicators_updated,
                   rows_skipped |-> done.rows_skipped, errors |-> done.errors]
        /\ last' = [op |-> "import_csv", actor |-> None, item |-> 0, req |-> None,
                    code |-> code, old |-> None]
        /\ UNCHANGED <<function_vars, workflow_vars, req, compliance_vars, sub, upload, classifier>>

\* ProjectViewSet.enrich_indicators: every indicator of the project, loaded
\* from the table, goes through enrich_indicators_for_import
enrich_indicators(force, enrichment) ==
    /\ indicators # {}
    /\ indicators' =
           { IF ~force /\ ind.enriched THEN ind
             ELSE _apply_enrichment_to_indicator(
                      ind, ind,
                      IF enrichment = "unavailable" THEN rule_based_indicator_type(ind)
                      ELSE enrichment,
                      today) : ind \in indicators }
    /\ last' = [op |-> "enrich_indicators", actor |-> None, item |-> 0, req |-> None,
                code |-> 200, old |-> None]
    /\ UNCHANGED <<function_vars, workflow_vars, req, compliance_vars, sub, sections, standards, cur,
                   upload, classifier>>

\* the user saves the file with other columns, the rows as they were
edit_headers(headers) ==
    /\ upload' = [upload EXCEPT !.headers = headers]
    /\ UNCHANGED <<function_vars, workflow_vars, last, req, compliance_vars, sub, sections, standards,
                   indicators, cur, classifier>>

ImportNext ==
    \/ \E headers \in HeaderSets : edit_headers(headers)
    \/ \E run_ai_enrichment \in BOOLEAN :
           \E enrichment \in IF run_ai_enrichment THEN EnrichmentAnswers
                              ELSE {"unavailable"} :
               import_csv(upload, run_ai_enrichment, enrichment)
    \/ \E force \in BOOLEAN, enrichment \in EnrichmentAnswers :
           enrich_indicators(force, enrichment)

SpecImport == ImportInit /\ [][ImportNext]_vars

(***************************************************************************)
(* Claims on the item workflow (Spec)                                      *)
(***************************************************************************)
ItemOps == {"partial_update", "submit_for_review", "verify", "mark_in_progress"}
QAActors == {"qa_admin", "superadmin", "coord_qa"}

CoordinatorPairs ==
    { <<"NOT_STARTED", "IN_PROGRESS">>, <<"IN_PROGRESS", "PENDING_REVIEW">>,
      <<"PENDING_REVIEW", "IN_PROGRESS">>, <<"IN_PROGRESS", "NOT_STARTED">> }

\* C1: a coordinator-only actor's accepted status request (PATCH with a status,
\* submit-for-review, mark-in-progress) moves the item by one of the four
\* coordinator pairs; a request for any other (source, target) pair is answered
\* 400 and leaves the status as it was.
C1_CoordinatorOnlyFourPairs ==
    ( /\ last.actor = "coordinator"
      /\ last.op \in {"partial_update", "submit_for_review", "mark_in_progress"}
      /\ last.req # None )
    => /\ last.code = 200 => /\ <<last.old, last.req>> \in CoordinatorPairs
                             /\ item_status[last.item] = last.req
       /\ <<last.old, last.req>> \notin CoordinatorPairs
              => /\ last.code = 400
                 /\ item_status[last.item] = last.old

\* C2: whenever an accepted item operation of any actor leaves an item VERIFIED
\* that was not VERIFIED before, the item was PENDING_REVIEW before; a request
\* NOT_STARTED -> VERIFIED is rejected.
C2_VerifiedOnlyFromSubmitted ==
    ( /\ last.op \in ItemOps
      /\ last.req = "VERIFIED" )
    => /\ ( last.code = 200 /\ last.old # "VERIFIED" ) => last.old = "PENDING_REVIEW"
       /\ last.old = "NOT_STARTED"
              => last.code # 200 /\ item_status[last.item] = "NOT_STARTED"

\* the request just answered is a QA actor's verify, or PATCH to VERIFIED/REJECTED
QAVerdictRequest(l) ==
    /\ l.actor \in QAActors
    /\ \/ l.op = "verify"
       \/ l.op = "partial_update" /\ l.req \in {"VERIFIED", "REJECTED"}

\* C3: a QA actor's verify, or PATCH to VERIFIED or REJECTED, is answered 400 and
\* changes neither status nor completion percentage unless the item is
\* PENDING_REVIEW; from PENDING_REVIEW it is accepted and sets the status.
C3_QAVerdictOnlyFromSubmitted ==
    [][ QAVerdictRequest(last')
        => IF item_status[last'.item] = "PENDING_REVIEW"
           THEN /\ last'.code = 200
                /\ item_status'[last'.item] = last'.req
           ELSE /\ last'.code = 400
                /\ item_status' = item_status
                /\ completion_percent' = completion_percent ]_vars

C3_Witness ==
    /\ QAVerdictRequest(last)
    /\ last.op = "partial_update" /\ last.req = "REJECTED"
    /\ last.old = "IN_PROGRESS" /\ last.code = 400
    /\ item_status[last.item] = "IN_PROGRESS"

\* C6: every accepted item status transition appends exactly one audit row with
\* the old status, the new status and the actor; a rejected one appends none.
C6_OneAuditRowPerTransition ==
    [][ ( last'.op \in ItemOps /\ last'.req # None )
        => IF last'.code = 200 /\ item_status'[last'.item] # item_status[last'.item]
           THEN assignment_updates' =
                    Append(assignment_updates,
                           [old |-> last'.old, new |-> last'.req, actor |-> last'.actor])
           ELSE assignment_updates' = assignment_updates ]_vars

AllItemsVerified(statuses) == \A i \in Items : statuses[i] \in {"VERIFIED", "Verified"}
AnyItemSubmitted(statuses) == \E i \in Items : statuses[i] \in {"PENDING_REVIEW", "Submitted"}

\* C7: after an accepted item transition and its recomputation, an assignment
\* whose items are all Verified is Completed/Verified; one that was NotStarted
\* and has a Submitted item or any evidence is InProgress/PendingReview;
\* otherwise its status is what it was.
C7_AssignmentRecomputed ==
    [][ ( last'.op \in ItemOps /\ last'.code = 200 )
        => IF AllItemsVerified(item_status')
           THEN assignment_status' \in {"COMPLETED", "VERIFIED", "Completed", "Verified"}
           ELSE IF /\ assignment_status \in {"NOT_STARTED", "NotStarted"}
                   /\ AnyItemSubmitted(item_status') \/ has_evidence(item_evidence)
           THEN assignment_status' \in {"IN_PROGRESS", "PENDING_REVIEW", "InProgress"}
           ELSE assignment_status' = assignment_status ]_vars

\* C8: an accepted evidence creation moves a NOT_STARTED item to IN_PROGRESS and
\* leaves an item in any other status where it was.
C8_EvidenceAdvancesOnlyNotStarted ==
    ( last.op = "evidence_create" /\ last.code = 201 )
    => item_status[last.item] =
           IF last.old = "NOT_STARTED" THEN "IN_PROGRESS" ELSE last.old

C8_Witness ==
    /\ last.op = "evidence_create" /\ last.code = 201
    /\ last.old = "NOT_STARTED"
    /\ item_status[last.item] = "IN_PROGRESS"
    /\ item_evidence[last.item] = 1

(***************************************************************************)
(* SpecSubmitConc: two evidence submissions for the same indicator in      *)
(* flight.  Each handler holds the Indicator object it loaded; every       *)
(* query and every write of recalculate_indicator_compliance is a step of  *)
(* its own.  Neither handler opens a transaction or locks the indicator.   *)
(***************************************************************************)
SubmitOps == {"perform_create", "submit_digital_form"}

SubmitConcInit ==
    /\ WorkflowDormant
    /\ \E sched \in IndicatorSchedules, created \in CreatedDates, t \in EvalDates :
          /\ DateLE(AddDays(created, -1), t)
          /\ indicator = [schedule_type |-> sched[1], normalized_frequency |-> sched[2],
                          created_at |-> created, status |-> "not_compliant"]
          /\ today = t
    /\ evidence = <<>>
    /\ status_history = <<>>
    /\ evidence_periods = {}
    /\ sub = [p \in Procs |-> NoSubmission]
    /\ last = [op |-> "import", actor |-> None, item |-> 0, req |-> None,
               code |-> 201, old |-> None]

\* the request is validated and the Indicator row is read into the handler
load_indicator(p, op, bounds) ==
    /\ sub[p].pc = "idle"
    /\ sub' = [sub EXCEPT ![p] =
                 [pc |-> "loaded", op |-> op,
                  period_start |-> bounds.period_start, period_end |-> bounds.period_end,
                  status |-> indicator.status, new_status |-> None]]
    /\ UNCHANGED <<function_vars, import_vars, workflow_vars, last, req, compliance_vars>>

\* serializer.save(uploaded_by=...) / Evidence.objects.create(...)
save_evidence(p) ==
    /\ sub[p].pc = "loaded"
    /\ evidence' = Append(evidence, [period_start |-> sub[p].period_start,
                                     period_end |-> sub[p].period_end])
    /\ sub' = [sub EXCEPT ![p].pc = "saved"]
    /\ UNCHANGED <<function_vars, import_vars, workflow_vars, last, req, indicator, today, status_history,
                   evidence_periods>>

\* compliance = calculate_compliance_status(indicator): the evidence query
compute_status(p) ==
    /\ sub[p].pc = "saved"
    /\ sub' = [sub EXCEPT ![p].pc = "calculated",
                          ![p].new_status = recalculated_status(indicator, evidence, today)]
    /\ UNCHANGED <<function_vars, import_vars, workflow_vars, last, req, compliance_vars>>

\* if indicator.status != new_status: the history row and
\* indicator.save(update_fields=['status']), on the handler's own object
write_status(p) ==
    /\ sub[p].pc = "calculated"
    /\ IF sub[p].status # sub[p].new_status
       THEN /\ status_history' =
                   Append(status_history, history_row(sub[p].status, sub[p].new_status))
            /\ indicator' = [indicator EXCEPT !.status = sub[p].new_status]
       ELSE UNCHANGED <<status_history, indicator>>
    /\ sub' = [sub EXCEPT ![p].pc = "written", ![p].status = sub[p].new_status]
    /\ UNCHANGED <<function_vars, import_vars, workflow_vars, last, req, evidence, today, evidence_periods>>

\* update_evidence_period_compliance(indicator), then the response
update_periods(p) ==
    /\ sub[p].pc = "written"
    /\ evidence_periods' =
           update_evidence_period_compliance(indicator, evidence, today, evidence_periods)
    /\ sub' = [sub EXCEPT ![p].pc = "done"]
    /\ UNCHANGED <<function_vars, import_vars, workflow_vars, last, req, indicator, evidence, today, status_history>>

SubmitConcNext ==
    \/ \E p \in Procs, bounds \in EvidenceBounds : load_indicator(p, "perform_create", bounds)
    \/ \E p \in Procs, bounds \in EvidenceBounds :
           load_indicator(p, "submit_digital_form", bounds)
    \/ \E p \in Procs : save_evidence(p)
    \/ \E p \in Procs : compute_status(p)
    \/ \E p \in Procs : write_status(p)
    \/ \E p \in Procs : update_periods(p)

SpecSubmitConc == SubmitConcInit /\ [][SubmitConcNext]_vars

(***************************************************************************)
(* Claims on the compliance status                                         *)
(***************************************************************************)
IsRecurring ==
    indicator.schedule_type = "recurring" /\ indicator.normalized_frequency # ""

\* the expected periods of the indicator on the evaluation date
ExpectedNow ==
    _get_expected_periods(indicator.created_at, indicator.normalized_frequency, today)

DerivedNow == calculate_compliance_status(indicator, evidence, today).status

\* C5: once two concurrent evidence submissions against the same recurring
\* indicator have both completed, the status stored on the indicator is the
\* status derived from the evidence set that holds both records.
C5_NoLostUpdate ==
    ( IsRecurring /\ \A p \in Procs : sub[p].pc = "done" )
    => indicator.status = DerivedNow

RecalculatingOps == {"perform_create", "submit_digital_form", "recalculate"}

\* C9: when the expected-period sequence of a recurring indicator is empty on
\* the evaluation date, the status derived for it, which an accepted
\* recalculation has just stored, is not_compliant and never compliant.
C9_ZeroPeriodsNotCompliant ==
    ( /\ IsRecurring /\ ExpectedNow = <<>>
      /\ last.op \in RecalculatingOps /\ last.code \in {200, 201} )
    => /\ DerivedNow = "not_compliant"
       /\ indicator.status = "not_compliant"

\* an evidence row with both bounds set overlaps the expected period exp
\* (inclusive on both ends)
EvidenceOverlaps(exp) ==
    \E k \in DOMAIN evidence :
        /\ evidence[k].period_start # NoDate
        /\ evidence[k].period_end # NoDate
        /\ ~DateLT(evidence[k].period_end, exp[1])
        /\ ~DateLT(exp[2], evidence[k].period_start)

\* the positions of the expected periods that no evidence overlaps
MissingNow == { k \in DOMAIN ExpectedNow : ~EvidenceOverlaps(ExpectedNow[k]) }

\* C10: for a recurring indicator with at least one expected period the derived
\* status is compliant exactly when no expected period is missing,
\* not_compliant exactly when every expected period is missing, and in_process
\* exactly when some but not all are missing; it is one of these three values.
C10_StatusFromMissingPeriods ==
    ( IsRecurring /\ ExpectedNow # <<>> )
    => /\ DerivedNow \in {"compliant", "in_process", "not_compliant"}
       /\ DerivedNow = "compliant" <=> MissingNow = {}
       /\ DerivedNow = "not_compliant" <=> MissingNow = DOMAIN ExpectedNow
       /\ DerivedNow = "in_process"
              <=> ( MissingNow # {} /\ MissingNow # DOMAIN ExpectedNow )

C10_Witness ==
    /\ IsRecurring
    /\ Len(ExpectedNow) >= 2
    /\ last.op = "perform_create" /\ last.code = 201
    /\ Cardinality(MissingNow) = 1
    /\ DerivedNow = "in_process"
    /\ indicator.status = "in_process"

AcceptedRecalculation(l) ==
    l.op \in RecalculatingOps /\ l.code \in {200, 201}

\* C11: for a one-time indicator the derived status is compliant exactly when
\* at least one evidence row exists, with or without period bounds, and
\* not_compliant otherwise; no expected or missing periods are computed, and
\* an accepted recalculation stores that status.
C11_OneTimeStatusFromEvidenceCount ==
    indicator.schedule_type = "one_time"
    => LET result == calculate_compliance_status(indicator, evidence, today)
       IN  /\ result.status = "compliant" <=> Len(evidence) >= 1
           /\ result.status = "not_compliant" <=> Len(evidence) = 0
           /\ result.expected_periods = <<>>
           /\ result.missing_periods = <<>>
           /\ AcceptedRecalculation(last) => indicator.status = result.status

C11_Witness ==
    /\ indicator.schedule_type = "one_time"
    /\ indicator.normalized_frequency = "Monthly"
    /\ last.op = "perform_create" /\ last.code = 201
    /\ Len(evidence) = 1
    /\ evidence[1].period_start = NoDate /\ evidence[1].period_end = NoDate
    /\ indicator.status = "compliant"

\* the evidence rows that carry both period bounds
WithBothBounds(rows) ==
    SelectSeq(rows, LAMBDA r : r.period_start # NoDate /\ r.period_end # NoDate)

\* C12: the missing periods of a recurring indicator are exactly the expected
\* periods that no evidence row with both bounds set overlaps inclusively;
\* the list is empty exactly when every expected period is overlapped, and
\* rows with a null bound change nothing.
C12_MissingIffNoOverlap ==
    IsRecurring
    => LET missing == calculate_compliance_status(indicator, evidence, today).missing_periods
       IN  /\ missing = SelectSeq(ExpectedNow, LAMBDA exp : ~EvidenceOverlaps(exp))
           /\ missing = <<>>
                 <=> \A k \in DOMAIN ExpectedNow : EvidenceOverlaps(ExpectedNow[k])
           /\ missing = calculate_compliance_status(
                            indicator, WithBothBounds(evidence), today).missing_periods

C12_Witness ==
    /\ IsRecurring
    /\ Len(ExpectedNow) = 2
    /\ last.op = "perform_create" /\ last.code = 201
    /\ Len(evidence) = 2
    /\ evidence[1].period_start # NoDate /\ evidence[1].period_end = NoDate
    /\ evidence[2].period_start # NoDate /\ evidence[2].period_end # NoDate
    /\ evidence[2].period_start # evidence[2].period_end
    /\ MissingNow = {1}

SubmissionOps == {"perform_create", "submit_digital_form"}

\* C13: when a recurring indicator has exactly one missing expected period and
\* its stored status is in_process or not_compliant, an accepted submission of
\* one evidence row whose bounds overlap that period leaves the stored status
\* compliant.
C13_CoveringLastGapMakesCompliant ==
    [][ ( /\ IsRecurring
          /\ Cardinality(MissingNow) = 1
          /\ indicator.status \in {"in_process", "not_compliant"}
          /\ last'.op \in SubmissionOps /\ last'.code \in {200, 201}
          /\ Len(evidence') = Len(evidence) + 1
          /\ LET row == evidence'[Len(evidence')]
                 gap == ExpectedNow[CHOOSE k \in MissingNow : TRUE]
             IN  /\ row.period_start # NoDate /\ row.period_end # NoDate
                 /\ ~DateLT(row.period_end, gap[1])
                 /\ ~DateLT(gap[2], row.period_start) )
        => indicator'.status = "compliant" ]_vars

C13_Witness ==
    /\ IsRecurring
    /\ Len(ExpectedNow) = 2
    /\ last.op = "submit_digital_form" /\ last.code = 200
    /\ last.old = "in_process"
    /\ Len(evidence) = 2
    /\ MissingNow = {}
    /\ indicator.status = "compliant"

\* C14: an accepted recalculation that derives a status different from the
\* stored one stores the derived status and appends exactly one history row
\* with the previous stored status as old, the derived status as new and no
\* human actor; when the two are equal it appends nothing and leaves the
\* stored status as it was.
C14_HistoryRowOnChangeOnly ==
    [][ AcceptedRecalculation(last')
        => LET computed == calculate_compliance_status(indicator, evidence', today).status
           IN  IF computed # indicator.status
               THEN /\ indicator'.status = computed
                    /\ Len(status_history') = Len(status_history) + 1
                    /\ SubSeq(status_history', 1, Len(status_history)) = status_history
                    /\ status_history'[Len(status_history')].old_status = indicator.status
                    /\ status_history'[Len(status_history')].new_status = computed
                    /\ status_history'[Len(status_history')].changed_by = None
               ELSE /\ indicator'.status = indicator.status
                    /\ status_history' = status_history ]_vars

C14_Witness ==
    /\ AcceptedRecalculation(last)
    /\ Len(status_history) = 2
    /\ status_history[1].old_status = "not_compliant"
    /\ status_history[1].new_status = "in_process"
    /\ status_history[2].old_status = "in_process"
    /\ status_history[2].new_status = "compliant"
    /\ status_history[2].changed_by = None
    /\ indicator.status = "compliant"

\* C15: a recalculation that directly follows an accepted recalculation of the
\* same indicator, with the same evidence and on the same day, leaves the
\* stored status as the first one left it and appends no history row.
C15_RecalculationIdempotent ==
    [][ ( AcceptedRecalculation(last) /\ last'.op = "recalculate" )
        => /\ indicator'.status = indicator.status
           /\ status_history' = status_history ]_vars

C15_Witness ==
    /\ last.op = "recalculate"
    /\ last.old = indicator.status
    /\ evidence # <<>>
    /\ status_history # <<>>
    /\ status_history[Len(status_history)].new_status = indicator.status
    /\ indicator.status = DerivedNow

(***************************************************************************)
(* Claims on the CSV import and the frequency analysis (SpecImport)        *)
(***************************************************************************)
ImportRan(l) == l.op = "import_csv"

HeadersComplete(file) == \A required \in REQUIRED_HEADERS : required \in file.headers

\* a step in which the uploaded file, left as it was, has been imported
ImportStep == ImportRan(last') /\ upload' = upload /\ cur'.file = upload

\* C16: when a CSV file has been imported into a project without indicators
\* and the same unchanged file is imported again, the second run creates no
\* indicator and updates as many as the first run created.
C16_ReimportUpdatesWhatWasCreated ==
    [][ ( /\ ImportRan(last) /\ cur.fresh /\ cur.file = upload
          /\ HeadersComplete(upload)
          /\ ImportStep )
        => /\ cur'.indicators_created = 0
           /\ Cardinality(indicators') = Cardinality(indicators)
           /\ cur'.indicators_updated = cur.indicators_created ]_vars

\* the data rows of the file with an empty Section, Standard or Indicator cell
BlankRequired(file) ==
    { k \in DOMAIN file.rows :
        \/ str_strip(file.rows[k].Section) = ""
        \/ str_strip(file.rows[k].Standard) = ""
        \/ str_strip(file.rows[k].Indicator) = "" }

RowKey(row) ==
    generate_indicator_key_static(project_id, str_strip(row.Section),
                                  str_strip(row.Standard), str_strip(row.Indicator))

\* C17: in an import every data row with an empty Section, Standard or
\* Indicator cell (after trimming) adds one to rows_skipped and one entry with
\* its row number to the errors; no Section, Standard or Indicator comes
\* from it; every other row of the file is created or updated.
C17_BlankRowsSkippedOthersProceed ==
    [][ ( ImportStep /\ HeadersComplete(upload) )
        => LET bad == BlankRequired(upload)
               good == DOMAIN upload.rows \ bad
           IN  /\ cur'.rows_skipped = Cardinality(bad)
               /\ Len(cur'.errors) = Cardinality(bad)
               /\ { cur'.errors[i] : i \in DOMAIN cur'.errors } = { k + 1 : k \in bad }
               /\ cur'.indicators_created + cur'.indicators_updated = Cardinality(good)
               /\ \A k \in good :
                      \E ind \in indicators' : ind.indicator_key = RowKey(upload.rows[k])
               /\ \A ind \in indicators' \ indicators :
                      \E k \in good : ind.indicator_key = RowKey(upload.rows[k])
               /\ \A name \in sections' \ sections :
                      \E k \in good : name = str_strip(upload.rows[k].Section)
               /\ \A pair \in standards' \ standards :
                      \E k \in good : pair[2] = str_strip(upload.rows[k].Standard) ]_vars

C17_Witness ==
    /\ ImportRan(last) /\ cur.file = upload /\ HeadersComplete(upload)
    /\ Len(upload.rows) = 2
    /\ BlankRequired(upload) = {1}
    /\ cur.rows_skipped = 1
    /\ cur.errors = <<2>>
    /\ cur.indicators_created = 1
    /\ Cardinality(indicators) = 1

\* C18: an import of a file whose header lacks a required column creates and
\* updates nothing, leaves the created, updated and skipped counts at zero and
\* reports exactly one error, for row 0.
C18_MissingColumnFailsBatch ==
    [][ ( ImportStep /\ ~HeadersComplete(upload) )
        => /\ sections' = sections
           /\ standards' = standards
           /\ indicators' = indicators
           /\ cur'.sections_created = 0 /\ cur'.standards_created = 0
           /\ cur'.indicators_created = 0 /\ cur'.indicators_updated = 0
           /\ cur'.rows_skipped = 0
           /\ cur'.errors = <<0>>
           /\ last'.code = 400 ]_vars

C18_Witness ==
    /\ ImportRan(last) /\ cur.file = upload
    /\ upload.headers = REQUIRED_HEADERS \ {"Score"}
    /\ Len(upload.rows) = 2 /\ BlankRequired(upload) = {}
    /\ indicators # {}
    /\ cur.errors = <<0>>
    /\ cur.indicators_created = 0 /\ cur.indicators_updated = 0
    /\ last.code = 400

\* the classifier's answer is not a JSON object with the three keys asked for
MalformedAnswer(answer) ==
    \/ answer.kind = "not_json"
    \/ /\ answer.kind = "object"
       /\ \/ answer.schedule_type = <<>>
          \/ answer.normalized_frequency = <<>>
          \/ answer.confidence_score = <<>>

ClassifierFailed(answer) ==
    answer.kind \in {"absent", "unreachable"} \/ MalformedAnswer(answer)

\* C19: when the classifier is absent, unreachable or answers with malformed
\* output, every row of an import whose frequency text is analysed gets the
\* schedule type and normalized frequency of the rule-based detection for
\* that text, and the indicator is stored with them.
C19_FallbackIsRuleBased ==
    ( /\ ImportRan(last) /\ cur.file = upload /\ HeadersComplete(upload)
      /\ ClassifierFailed(classifier) )
    => \A k \in DOMAIN upload.rows \ BlankRequired(upload) :
           LET frequency == str_strip(upload.rows[k].Frequency)
               used == analyze_indicator_frequency(frequency, classifier)
               rule == _rule_based_frequency_detection(frequency)
               last_of_key == \A j \in DOMAIN upload.rows \ BlankRequired(upload) :
                                  j > k => RowKey(upload.rows[j]) # RowKey(upload.rows[k])
           IN  frequency # ""
               => /\ used.schedule_type = rule.schedule_type
                  /\ used.normalized_frequency = rule.normalized_frequency
                  /\ (last_of_key /\ ~cur.run_ai_enrichment)
                     => \E ind \in indicators :
                            /\ ind.indicator_key = RowKey(upload.rows[k])
                            /\ ind.schedule_type = rule.schedule_type
                            /\ ind.normalized_frequency = rule.normalized_frequency

\* C20: every stored indicator whose schedule_type is recurring has a
\* non-empty normalized_frequency from which calculate_next_due_date gives a
\* date.
C20_RecurringHasComputableDueDate ==
    \A ind \in indicators :
        ind.schedule_type = "recurring"
        => /\ ind.normalized_frequency # ""
           /\ calculate_next_due_date(ind.normalized_frequency, today) # NoDate

(***************************************************************************)
(* Claims on the completion percentage (Spec)                              *)
(***************************************************************************)
\* C21: in every reachable state the completion percentage of every item is
\* an integer from 0 to 100, whatever PATCH, submit-for-review, verify and
\* mark-in-progress requests have been handled.
C21_CompletionPercentInRange ==
    \A i \in Items : completion_percent[i] \in 0..100

(***************************************************************************)
(* SpecWalk: _get_expected_periods, one iteration of its while loop a step *)
(***************************************************************************)
\* the tables and requests of the program at rest
ProgramDormant ==
    /\ item_status = [i \in Items |-> "NOT_STARTED"]
    /\ completion_percent = [i \in Items |-> 0]
    /\ assignment_status = "NOT_STARTED"
    /\ item_evidence = [i \in Items |-> 0]
    /\ assignment_updates = <<>>
    /\ req = [p \in {1, 2} |-> Idle]
    /\ indicator = NoIndicator
    /\ evidence = <<>>
    /\ today = <<2024, 1, 15>>
    /\ status_history = <<>>
    /\ evidence_periods = {}
    /\ sub = [p \in {1, 2} |-> NoSubmission]
    /\ DatabaseEmpty
    /\ upload = NoImport.file
    /\ classifier = NoClassifier
    /\ last = [op |-> "create_project", actor |-> None, item |-> 0, req |-> None,
               code |-> 201, old |-> None]

WalkLabels == FrequencyLabels \cup {""}

\* indicator.created_at.date()
WalkCreated == { <<2023, 12, 31>>, <<2024, 1, 15>>, <<2024, 1, 31>>, <<2024, 2, 29>>,
                 <<2024, 6, 30>> }

\* end_date
WalkEnds == { <<2023, 12, 30>>, <<2023, 12, 31>>, <<2024, 1, 15>>, <<2024, 1, 31>>,
              <<2024, 2, 1>>, <<2024, 2, 29>>, <<2024, 3, 1>>, <<2024, 4, 1>>,
              <<2024, 7, 1>>, <<2025, 1, 1>> }

\* the dates on which the loop can stand
WalkDates ==
    { d \in (2023..2025) \X (1..12) \X (1..31) :
        /\ d[3] <= DaysInMonth(d[1], d[2])
        /\ \E created \in WalkCreated : DateLE(created, d)
        /\ \E end_date \in WalkEnds : DateLE(d, end_date) }

\* the body of the loop as a table: the period of current_date and the
\* next_start computed from it (lines 152 and 160)
iteration ==
    { [frequency |-> at[1], current_date |-> at[2],
       period |-> get_period_dates(at[1], at[2]),
       next_start |-> next_start_of(at[1], get_period_dates(at[1], at[2]), at[2])] :
      at \in WalkLabels \X WalkDates }

iteration_of(frequency, current_date) ==
    CHOOSE row \in iteration :
        row.frequency = frequency /\ row.current_date = current_date

\* periods = []; current_date = indicator.created_at.date()
WalkInit ==
    /\ ProgramDormant
    /\ calc = NoCalc
    /\ txn = [p \in {1, 2} |-> NoTxn]
    /\ \E frequency \in WalkLabels, created \in WalkCreated, end_date \in WalkEnds :
           walk = [frequency |-> frequency, created |-> created, end_date |-> end_date,
                   periods |-> <<>>, current_date |-> created, bounds |-> <<>>,
                   pc |-> "loop"]

\* the test of the while loop and one pass through its body.  bounds keeps the
\* last call of get_period_dates: <<reference_date, <<start, end>> >>.  A
\* current_date of None makes the comparison of the test raise TypeError.
walk_step ==
    /\ walk.pc = "loop"
    /\ IF walk.current_date = NoDate
       THEN walk' = [walk EXCEPT !.pc = "raised"]
       ELSE IF ~DateLE(walk.current_date, walk.end_date)
       THEN walk' = [walk EXCEPT !.pc = "done"]
       ELSE LET period == iteration_of(walk.frequency, walk.current_date).period
                periods == IF walk.periods = <<>>
                              \/ walk.periods[Len(walk.periods)] # period
                           THEN Append(walk.periods, period) ELSE walk.periods
                next_start == iteration_of(walk.frequency, walk.current_date).next_start
            IN  IF loop_breaks(next_start, walk.current_date)
                THEN walk' = [walk EXCEPT !.periods = periods,
                                          !.bounds = <<walk.current_date, period>>,
                                          !.pc = "done"]
                ELSE walk' = [walk EXCEPT !.periods = periods,
                                          !.bounds = <<walk.current_date, period>>,
                                          !.current_date = next_start]
    /\ UNCHANGED <<workflow_vars, last, req, compliance_vars, sub, import_vars, calc, txn>>

WalkNext == walk_step

SpecWalk == WalkInit /\ [][WalkNext]_vars

\* the loop is the only thing the call does: it is not suspended for ever
SpecWalkFair == SpecWalk /\ WF_vars(walk_step)

\* the loop taken step by step ends with what _get_expected_periods computes
\* (compared where the recursion of the operator stays shallow)
WalkMatchesExpectedPeriods ==
    ( /\ walk.pc = "done"
      /\ ToOrdinal(walk.end_date) - ToOrdinal(walk.created) <= 40 )
    => walk.periods = _get_expected_periods(walk.created, walk.frequency, walk.end_date)

(***************************************************************************)
(* Claims on the expected periods (SpecWalk)                               *)
(***************************************************************************)
WalkDone == walk.pc = "done"

MonthIndex(d) == d[1] * 12 + (d[2] - 1)

\* the calendar month number n (MonthIndex) as a period
MonthPeriod(n) ==
    << <<n \div 12, (n % 12) + 1, 1>>,
       <<n \div 12, (n % 12) + 1, DaysInMonth(n \div 12, (n % 12) + 1)>> >>

\* C22: for a Monthly indicator created on c and evaluated at end_date >= c,
\* the expected periods are, in order, exactly the calendar months from the
\* month of c through the month of end_date, each from its first to its last
\* day.
C22_MonthlyPeriodsAreTheCalendarMonths ==
    ( /\ WalkDone
      /\ walk.frequency = "Monthly"
      /\ DateLE(walk.created, walk.end_date) )
    => /\ Len(walk.periods) = MonthIndex(walk.end_date) - MonthIndex(walk.created) + 1
       /\ \A k \in DOMAIN walk.periods :
              walk.periods[k] = MonthPeriod(MonthIndex(walk.created) + k - 1)

C22_Witness ==
    /\ WalkDone
    /\ walk.frequency = "Monthly"
    /\ walk.created = <<2024, 1, 15>>
    /\ walk.end_date = <<2024, 4, 1>>
    /\ walk.periods = << << <<2024, 1, 1>>, <<2024, 1, 31>> >>,
                         << <<2024, 2, 1>>, <<2024, 2, 29>> >>,
                         << <<2024, 3, 1>>, <<2024, 3, 31>> >>,
                         << <<2024, 4, 1>>, <<2024, 4, 30>> >> >>

\* C23: every call of _get_expected_periods ends, whatever the frequency
\* label, the creation date and the end date, also when
\* calculate_next_due_date gives no date for the label: the loop stops and
\* returns, and nothing is raised.
C23_ExpectedPeriodsTerminates ==
    <>(walk.pc = "done")

C23_Witness ==
    /\ walk.pc = "done"
    /\ walk.frequency = "Every 2 days"
    /\ calculate_next_due_date(walk.frequency, walk.created) = NoDate
    /\ DateLT(walk.created, walk.end_date)
    /\ walk.periods = << <<walk.created, walk.created>> >>

CanonicalFrequencies ==
    {"Daily", "Weekly", "Bi-weekly", "Monthly", "Quarterly", "Semi-annually", "Annual"}

PeriodContains(period, d) ==
    ToOrdinal(period[1]) <= ToOrdinal(d) /\ ToOrdinal(d) <= ToOrdinal(period[2])

\* C30: for a canonical frequency, a creation date c and an end date >= c the
\* expected periods cover the time from c to the end date without gap or
\* overlap: the first period contains c, every later period starts the day
\* after the one before it ends, the last period contains the end date; and
\* the period get_period_dates gives for a date contains that date.
C30_PeriodsAreContiguousCover ==
    /\ ( /\ WalkDone
         /\ walk.frequency \in CanonicalFrequencies
         /\ DateLE(walk.created, walk.end_date) )
       => /\ walk.periods # <<>>
          /\ PeriodContains(walk.periods[1], walk.created)
          /\ \A k \in 1..(Len(walk.periods) - 1) :
                 ToOrdinal(walk.periods[k + 1][1]) = ToOrdinal(walk.periods[k][2]) + 1
          /\ PeriodContains(walk.periods[Len(walk.periods)], walk.end_date)
    /\ ( walk.frequency \in CanonicalFrequencies /\ walk.bounds # <<>> )
       => PeriodContains(walk.bounds[2], walk.bounds[1])

C30_Witness ==
    /\ WalkDone
    /\ walk.frequency = "Bi-weekly"
    /\ walk.created = <<2024, 1, 31>>
    /\ walk.end_date = <<2024, 3, 1>>
    /\ Len(walk.periods) = 3
    /\ walk.periods[1] = << <<2024, 1, 29>>, <<2024, 2, 11>> >>
    /\ walk.bounds = << <<2024, 2, 26>>, << <<2024, 2, 26>>, <<2024, 3, 10>> >> >>

(***************************************************************************)
(* SpecFunctions: the pure functions of the scheduling, the frequency      *)
(* detection and the indicator key, called on their own                    *)
(***************************************************************************)
\* reference_date
CalcDates ==
    { <<2023, 1, 31>>, <<2023, 2, 28>>, <<2023, 12, 25>>, <<2023, 12, 31>>,
      <<2024, 1, 15>>, <<2024, 1, 31>>, <<2024, 2, 28>>, <<2024, 2, 29>>,
      <<2024, 3, 31>>, <<2024, 5, 31>>, <<2024, 8, 31>>, <<2024, 11, 30>>,
      <<2024, 12, 18>>, <<2024, 12, 31>> }

UpperChar(c) ==
    IF \E k \in 1..Len(LowerLetters) : CharAt(LowerLetters, k) = c
    THEN CharAt(UpperLetters, CHOOSE k \in 1..Len(LowerLetters) : CharAt(LowerLetters, k) = c)
    ELSE c

RECURSIVE str_upper(_)
str_upper(s) ==
    IF s = "" THEN "" ELSE UpperChar(CharAt(s, 1)) \o str_upper(SubSeq(s, 2, Len(s)))

\* every pattern of recurring_patterns
RecurringSynonyms ==
    UNION { recurring_patterns[k][2] : k \in DOMAIN recurring_patterns }

\* frequency_text: the patterns as written and in capitals, the canonical
\* labels, and texts without a pattern
ResolveTexts ==
    RecurringSynonyms
    \cup { str_upper(pattern) : pattern \in RecurringSynonyms }
    \cup { recurring_patterns[k][1] : k \in DOMAIN recurring_patterns }
    \cup { "", "Every 2 days", "As needed", "Once" }

\* section_name, standard_name and requirement texts
KeyTexts == { "A", "A:B", "B", "B:C", "C" }

FunctionsInit ==
    /\ ProgramDormant
    /\ walk = NoWalk
    /\ txn = [p \in {1, 2} |-> NoTxn]
    /\ calc = NoCalc

call_calculate_next_due_date(normalized_frequency, reference_date) ==
    /\ calc' = [op |-> "calculate_next_due_date",
                args |-> <<normalized_frequency, reference_date>>,
                result |-> calculate_next_due_date(normalized_frequency, reference_date)]
    /\ UNCHANGED <<workflow_vars, last, req, compliance_vars, sub, import_vars, walk, txn>>

call_get_period_dates(normalized_frequency, reference_date) ==
    /\ calc' = [op |-> "get_period_dates",
                args |-> <<normalized_frequency, reference_date>>,
                result |-> get_period_dates(normalized_frequency, reference_date)]
    /\ UNCHANGED <<workflow_vars, last, req, compliance_vars, sub, import_vars, walk, txn>>

call_rule_based_frequency_detection(frequency_text) ==
    /\ calc' = [op |-> "_rule_based_frequency_detection",
                args |-> <<frequency_text>>,
                result |-> _rule_based_frequency_detection(frequency_text)]
    /\ UNCHANGED <<workflow_vars, last, req, compliance_vars, sub, import_vars, walk, txn>>

call_generate_indicator_key_static(project, section_name, standard_name, requirement) ==
    /\ calc' = [op |-> "generate_indicator_key_static",
                args |-> <<project, section_name, standard_name, requirement>>,
                result |-> generate_indicator_key_static(project, section_name,
                                                         standard_name, requirement)]
    /\ UNCHANGED <<workflow_vars, last, req, compliance_vars, sub, import_vars, walk, txn>>

FunctionsNext ==
    \/ \E f \in WalkLabels, d \in CalcDates : call_calculate_next_due_date(f, d)
    \/ \E f \in WalkLabels, d \in CalcDates : call_get_period_dates(f, d)
    \/ \E text \in ResolveTexts : call_rule_based_frequency_detection(text)
    \/ \E section_name \in KeyTexts, standard_name \in KeyTexts, requirement \in KeyTexts :
           call_generate_indicator_key_static(project_id, section_name, standard_name,
                                              requirement)

SpecFunctions == FunctionsInit /\ [][FunctionsNext]_vars

(***************************************************************************)
(* Claims on the pure functions (SpecFunctions)                            *)
(***************************************************************************)
\* C25: _rule_based_frequency_detection maps every text that is, in any
\* case, one of the known synonyms of a canonical frequency to that
\* frequency ('bi-weekly' and 'biweekly' to Bi-weekly, 'semi-annual' to
\* Semi-annually, and so on for the seven frequencies).
C25_SynonymResolvesToItsFrequency ==
    calc.op = "_rule_based_frequency_detection"
    => \A k \in DOMAIN recurring_patterns :
           str_lower(calc.args[1]) \in recurring_patterns[k][2]
           => /\ calc.result.schedule_type = "recurring"
              /\ calc.result.normalized_frequency = recurring_patterns[k][1]

\* what the claim says is added: <<unit, count>>
IntervalOf(label) ==
    CASE label = "Daily"         -> <<"days", 1>>
      [] label = "Weekly"        -> <<"days", 7>>
      [] label = "Bi-weekly"     -> <<"days", 14>>
      [] label = "Monthly"       -> <<"months", 1>>
      [] label = "Quarterly"     -> <<"months", 3>>
      [] label = "Semi-annually" -> <<"months", 6>>
      [] label = "Annual"        -> <<"months", 12>>

IsCalendarDate(d) ==
    /\ d # NoDate
    /\ d[2] \in 1..12
    /\ d[3] \in 1..DaysInMonth(d[1], d[2])

\* C26: calculate_next_due_date adds 1, 7 or 14 days for Daily, Weekly,
\* Bi-weekly and 1, 3, 6 or 12 calendar months for Monthly, Quarterly,
\* Semi-annually, Annual; the result is a calendar date after the reference
\* date, and a day that the target month does not have becomes the last day
\* of that month.
C26_NextDueDateAddsTheInterval ==
    ( calc.op = "calculate_next_due_date" /\ calc.args[1] \in CanonicalFrequencies )
    => LET reference_date == calc.args[2]
           interval == IntervalOf(calc.args[1])
       IN  /\ IsCalendarDate(calc.result)
           /\ ToOrdinal(calc.result) > ToOrdinal(reference_date)
           /\ interval[1] = "days"
              => ToOrdinal(calc.result) = ToOrdinal(reference_date) + interval[2]
           /\ interval[1] = "months"
              => /\ MonthIndex(calc.result) = MonthIndex(reference_date) + interval[2]
                 /\ calc.result[3] =
                        IF reference_date[3] <= DaysInMonth(calc.result[1], calc.result[2])
                        THEN reference_date[3]
                        ELSE DaysInMonth(calc.result[1], calc.result[2])

C26_Witness ==
    /\ calc.op = "calculate_next_due_date"
    /\ calc.args = <<"Monthly", <<2024, 1, 31>> >>
    /\ calc.result = <<2024, 2, 29>>

\* C28: two calls of generate_indicator_key_static with tuples (project,
\* section, standard, requirement) that differ in a component give
\* different keys, also when a text contains ':'.
C28_KeyStringInjective ==
    [][ ( /\ calc.op = "generate_indicator_key_static"
          /\ calc'.op = "generate_indicator_key_static"
          /\ calc'.args # calc.args )
        => calc'.result # calc.result ]_vars

(***************************************************************************)
(* Claims on the derived status (SpecCompliance)                           *)
(***************************************************************************)
\* the indicator is recurring with a frequency text that the rule-based
\* detection kept as it was written, for the digit in it
VerbatimDigitFrequency ==
    /\ IsRecurring
    /\ LET detected == _rule_based_frequency_detection(indicator.normalized_frequency)
       IN  /\ detected.schedule_type = "recurring"
           /\ detected.normalized_frequency = indicator.normalized_frequency
           /\ detected.confidence_score = 70

\* C24: a frequency text kept verbatim for its digit is not used for period
\* arithmetic: the indicator has no expected period, and the status an
\* accepted recalculation stores is the one it would store without the text.
C24_VerbatimFrequencyNotUsedForPeriods ==
    ( VerbatimDigitFrequency /\ AcceptedRecalculation(last) )
    => LET result == calculate_compliance_status(indicator, evidence, today)
           without == calculate_compliance_status(
                          [indicator EXCEPT !.normalized_frequency = ""], evidence, today)
       IN  /\ result.expected_periods = <<>>
           /\ result.status = without.status
           /\ indicator.status = without.status

StatusRank(status) ==
    CASE status = "not_compliant" -> 0
      [] status = "in_process"    -> 1
      [] status = "compliant"     -> 2

SeqRange(seq) == { seq[k] : k \in DOMAIN seq }

\* C29: with the evaluation date unchanged, a step that adds an evidence row to
\* the indicator, whatever its period bounds, leaves the set of missing
\* periods the same or smaller and the derived status the same or higher in
\* the order not_compliant < in_process < compliant.
C29_EvidenceNeverLowersStatus ==
    [][ ( Len(evidence') = Len(evidence) + 1 /\ today' = today )
        => LET before == calculate_compliance_status(indicator, evidence, today)
               after == calculate_compliance_status(indicator', evidence', today')
           IN  /\ SeqRange(after.missing_periods) \subseteq SeqRange(before.missing_periods)
               /\ StatusRank(after.status) >= StatusRank(before.status) ]_vars

C29_Witness ==
    /\ IsRecurring
    /\ last.op \in SubmissionOps /\ AcceptedRecalculation(last)
    /\ Len(evidence) = 2
    /\ evidence[1].period_start # NoDate /\ evidence[1].period_end # NoDate
    /\ evidence[2].period_start = NoDate /\ evidence[2].period_end = NoDate
    /\ DerivedNow = "in_process"
    /\ indicator.status = "in_process"

(***************************************************************************)
(* SpecImportConc: two CSV imports, each in its own transaction, and       *)
(* indicators created by hand, statement by statement.  The store locks    *)
(* rows: an INSERT or UPDATE that meets a row another open transaction has *)
(* written waits for that transaction to end, and reads see what is        *)
(* committed and what the reader itself has written.                       *)
(***************************************************************************)
\* the data rows of the files the two clients upload, all with the required
\* headers
TxnFiles ==
    LET TxnRowX == CsvRow("Safety", "S1", "R1", "Monthly")
        TxnRowY == CsvRow("Safety", "S1", "R2", "Every 2 days")
        TxnRowY2 == CsvRow("Safety", "S1", "R2", "As needed")
        TxnRowZ == CsvRow(" safety ", "S1", "R1 ", "")
        TxnRowBad == CsvRow("Safety", "", "R2", "Monthly")
    IN  { <<TxnRowX, TxnRowY>>, <<TxnRowX, TxnRowZ>>, <<TxnRowY2, TxnRowX>>, <<TxnRowBad>> }

\* area, regulation_or_standard and requirement of the indicators made by hand
ManualCoordinates ==
    { <<"Safety", "S1", "R2">>, <<"safety", "S1", "R1">> }

KeysOf(rows) == { ind.indicator_key : ind \in rows }

row_key(row) ==
    generate_indicator_key_static(project_id, stripped[row.Section], stripped[row.Standard],
                                  stripped[row.Indicator])

\* Indicator.generate_indicator_key of an indicator without section and
\* standard: area and regulation_or_standard take their places
generate_indicator_key(area, regulation_or_standard, requirement) ==
    <<"sha256",
      ToString(project_id) \o ":" \o area \o ":" \o regulation_or_standard \o ":"
          \o requirement>>

InAtomic(p) == txn[p].pc \notin {"idle", "done"}

\* what the queries of transaction p see
VisibleIndicators(p) ==
    { ind \in indicators : ind.indicator_key \notin KeysOf(txn[p].updated) }
        \cup txn[p].updated \cup txn[p].inserted

\* the row has been dealt with: on to the next one, or out of the atomic block
next_row(t) ==
    [t EXCEPT !.row = t.row + 1,
              !.pc = IF t.row + 1 <= Len(t.file) THEN "section" ELSE "exit",
              !.section = "", !.standard = "", !.loaded = <<>>, !.is_new = FALSE]

\* the except clause of the row loop
row_error(t) ==
    next_row([t EXCEPT !.errors = t.errors \cup {t.row + 1}])

\* a statement of the transaction raised inside save or create: the
\* connection is marked for rollback and the except clause of the row runs
statement_failed(t) ==
    row_error([t EXCEPT !.needs_rollback = TRUE])

\* the statement transaction p is about to run waits for a row written by q
WaitsFor(p, q) ==
    /\ InAtomic(p) /\ InAtomic(q)
    /\ LET t == txn[p]
           row == t.file[t.row]
       IN  \/ t.pc = "section_create" /\ stripped[row.Section] \in txn[q].sections
           \/ t.pc = "standard_create"
              /\ <<t.section, stripped[row.Standard]>> \in txn[q].standards
           \/ /\ t.pc = "save"
              /\ t.loaded.indicator_key \in
                     KeysOf(IF t.is_new THEN txn[q].inserted ELSE txn[q].updated)

\* lines 194-232 of _process_row: the fields of the row on the loaded object
fill_indicator(row, loaded, section, standard, answer, today_) ==
    LET frequency == stripped[row.Frequency]
        ai_result == analysis[frequency, answer]
        filled == [loaded EXCEPT !.section = section, !.standard = standard,
                                 !.requirement = stripped[row.Indicator],
                                 !.frequency = frequency]
    IN  IF frequency = "" THEN filled
        ELSE [filled EXCEPT
                !.schedule_type = ai_result.schedule_type,
                !.normalized_frequency = ai_result.normalized_frequency,
                !.enriched = FALSE,
                !.next_due_date =
                    IF /\ ai_result.schedule_type = "recurring"
                       /\ ai_result.normalized_frequency # ""
                    THEN calculate_next_due_date(ai_result.normalized_frequency, today_)
                    ELSE filled.next_due_date]

ImportConcInit ==
    /\ ProgramDormant
    /\ walk = NoWalk
    /\ calc = NoCalc
    /\ txn = [p \in {1, 2} |-> NoTxn]

\* import_csv up to the atomic block, for a file with the required headers
begin_import(p, rows) ==
    /\ ~InAtomic(p)
    /\ txn' = [q \in {1, 2} |->
                 IF q = p
                 THEN [NoTxn EXCEPT !.pc = "section", !.file = rows, !.row = 1,
                                    !.overlapped = InAtomic(3 - p)]
                 ELSE [txn[q] EXCEPT !.overlapped = @ \/ InAtomic(q)]]
    /\ UNCHANGED <<workflow_vars, last, req, compliance_vars, sub, import_vars, walk, calc>>

\* _process_row to the end of the section lookup.  In a transaction marked
\* for rollback the first query of the row raises.
lookup_section(p) ==
    /\ txn[p].pc = "section"
    /\ LET t == txn[p]
           row == t.file[t.row]
           section_name == stripped[row.Section]
           cached == { c \in t.section_cache : c[1] = lowered[section_name] }
           found == find_section(sections \cup t.sections, section_name)
       IN  txn' = [txn EXCEPT ![p] =
                     IF required_missing(row) THEN row_error(t)
                     ELSE IF t.needs_rollback THEN row_error(t)
                     ELSE IF cached # {}
                     THEN [t EXCEPT !.section = (CHOOSE c \in cached : TRUE)[2],
                                    !.pc = "standard"]
                     ELSE IF found # {}
                     THEN LET section == CHOOSE n \in found : TRUE
                          IN  [t EXCEPT !.section = section, !.pc = "standard",
                                        !.section_cache =
                                            @ \cup {<<lowered[section_name], section>>}]
                     ELSE [t EXCEPT !.pc = "section_create"]]
    /\ UNCHANGED <<workflow_vars, last, req, compliance_vars, sub, import_vars, walk, calc>>

\* Section.objects.create(project=..., name=section_name)
create_section(p) ==
    /\ txn[p].pc = "section_create"
    /\ ~WaitsFor(p, 3 - p)
    /\ LET t == txn[p]
           section_name == stripped[t.file[t.row].Section]
       IN  txn' = [txn EXCEPT ![p] =
                     IF section_name \in sections THEN statement_failed(t)
                     ELSE [t EXCEPT !.sections = @ \cup {section_name},
                                    !.section = section_name, !.pc = "standard",
                                    !.section_cache =
                                        @ \cup {<<lowered[section_name], section_name>>}]]
    /\ UNCHANGED <<workflow_vars, last, req, compliance_vars, sub, import_vars, walk, calc>>

\* _get_or_create_standard up to the lookup
lookup_standard(p) ==
    /\ txn[p].pc = "standard"
    /\ LET t == txn[p]
           standard_name == stripped[t.file[t.row].Standard]
           cache_key == <<t.section, lowered[standard_name]>>
           cached == { c \in t.standard_cache : c[1] = cache_key }
           found == find_standard(standards \cup t.standards, t.section, standard_name)
       IN  txn' = [txn EXCEPT ![p] =
                     IF cached # {}
                     THEN [t EXCEPT !.standard = (CHOOSE c \in cached : TRUE)[2],
                                    !.pc = "get"]
                     ELSE IF found # {}
                     THEN LET standard == (CHOOSE q \in found : TRUE)[2]
                          IN  [t EXCEPT !.standard = standard, !.pc = "get",
                                        !.standard_cache = @ \cup {<<cache_key, standard>>}]
                     ELSE [t EXCEPT !.pc = "standard_create"]]
    /\ UNCHANGED <<workflow_vars, last, req, compliance_vars, sub, import_vars, walk, calc>>

\* Standard.objects.create(section=section, name=standard_name)
create_standard(p) ==
    /\ txn[p].pc = "standard_create"
    /\ ~WaitsFor(p, 3 - p)
    /\ LET t == txn[p]
           standard_name == stripped[t.file[t.row].Standard]
       IN  txn' = [txn EXCEPT ![p] =
                     IF <<t.section, standard_name>> \in standards THEN statement_failed(t)
                     ELSE [t EXCEPT !.standards = @ \cup {<<t.section, standard_name>>},
                                    !.standard = standard_name, !.pc = "get",
                                    !.standard_cache =
                                        @ \cup {<<<<t.section, lowered[standard_name]>>,
                                                  standard_name>>}]]
    /\ UNCHANGED <<workflow_vars, last, req, compliance_vars, sub, import_vars, walk, calc>>

\* lines 177-191: Indicator.objects.get(indicator_key=...) or a new object
get_indicator(p) ==
    /\ txn[p].pc = "get"
    /\ LET t == txn[p]
           indicator_key == row_key(t.file[t.row])
           existing == { ind \in VisibleIndicators(p) : ind.indicator_key = indicator_key }
       IN  txn' = [txn EXCEPT ![p] =
                     IF existing = {}
                     THEN [t EXCEPT !.loaded = new_indicator(indicator_key),
                                    !.is_new = TRUE, !.pc = "save",
                                    !.unseen = @ \cup {indicator_key}]
                     ELSE [t EXCEPT !.loaded = CHOOSE ind \in existing : TRUE,
                                    !.is_new = FALSE, !.pc = "save"]]
    /\ UNCHANGED <<workflow_vars, last, req, compliance_vars, sub, import_vars, walk, calc>>

\* the unique index on indicator_key refuses the INSERT of a key that a
\* committed row has
unique_violation(indicator_key) == indicator_key \in KeysOf(indicators)

\* lines 194-240: the fields are set and indicator.save() runs: an INSERT for
\* a new object, an UPDATE of the loaded row otherwise
save_indicator(p) ==
    /\ txn[p].pc = "save"
    /\ ~WaitsFor(p, 3 - p)
    /\ LET t == txn[p]
           saved == fill_indicator(t.file[t.row], t.loaded, t.section, t.standard,
                                   classifier, today)
           key == saved.indicator_key
       IN  txn' = [txn EXCEPT ![p] =
                     IF t.is_new
                     THEN IF unique_violation(key) THEN statement_failed(t)
                          ELSE next_row([t EXCEPT !.inserted = @ \cup {saved},
                                                  !.indicators_created = @ + 1])
                     ELSE IF key \in KeysOf(t.inserted)
                     THEN next_row([t EXCEPT
                                      !.inserted = { ind \in @ : ind.indicator_key # key }
                                                       \cup {saved},
                                      !.indicators_updated = @ + 1])
                     ELSE next_row([t EXCEPT
                                      !.updated = { ind \in @ : ind.indicator_key # key }
                                                      \cup {saved},
                                      !.indicators_updated = @ + 1])]
    /\ UNCHANGED <<workflow_vars, last, req, compliance_vars, sub, import_vars, walk, calc>>

\* the store finds the two transactions waiting for each other and makes the
\* statement of p fail
deadlock_detected(p) ==
    /\ WaitsFor(p, 3 - p)
    /\ WaitsFor(3 - p, p)
    /\ txn' = [txn EXCEPT ![p] = statement_failed(txn[p])]
    /\ UNCHANGED <<workflow_vars, last, req, compliance_vars, sub, import_vars, walk, calc>>

\* the end of the atomic block: rollback if the connection is marked, commit
\* otherwise; then the response of import_csv, called without enrichment
exit_atomic(p) ==
    /\ txn[p].pc = "exit"
    /\ LET t == txn[p]
       IN  /\ sections' = IF t.needs_rollback THEN sections ELSE sections \cup t.sections
           /\ standards' = IF t.needs_rollback THEN standards
                           ELSE standards \cup t.standards
           /\ indicators' =
                  IF t.needs_rollback THEN indicators
                  ELSE { ind \in indicators : ind.indicator_key \notin KeysOf(t.updated) }
                           \cup t.updated \cup t.inserted
           /\ txn' = [txn EXCEPT ![p] =
                        [t EXCEPT !.pc = "done", !.sections = {}, !.standards = {},
                                  !.inserted = {}, !.updated = {}]]
           /\ last' = [op |-> "import_csv", actor |-> None, item |-> 0, req |-> None,
                       code |-> IF /\ t.errors # {}
                                   /\ t.indicators_created = 0
                                   /\ t.indicators_updated = 0
                                THEN 400 ELSE 200,
                       old |-> None]
    /\ UNCHANGED <<workflow_vars, req, compliance_vars, sub, cur, upload, classifier,
                   walk, calc>>

\* IndicatorViewSet.create for an indicator without section and standard:
\* Indicator.save() makes the key and inserts the row in a transaction of its
\* own
create_indicator(area, regulation_or_standard, requirement) ==
    LET indicator_key == generate_indicator_key(area, regulation_or_standard, requirement)
    IN  /\ \A p \in {1, 2} : InAtomic(p) => indicator_key \notin KeysOf(txn[p].inserted)
        /\ indicators' =
               IF unique_violation(indicator_key) THEN indicators
               ELSE indicators
                        \cup {[new_indicator(indicator_key) EXCEPT !.requirement = requirement]}
        /\ last' = [op |-> "create_indicator", actor |-> None, item |-> 0, req |-> None,
                    code |-> IF unique_violation(indicator_key) THEN 500 ELSE 201,
                    old |-> None]
        /\ UNCHANGED <<workflow_vars, req, compliance_vars, sub, sections, standards, cur,
                       upload, classifier, function_vars>>

ImportConcNext ==
    \/ \E p \in {1, 2}, rows \in TxnFiles : begin_import(p, rows)
    \/ \E p \in {1, 2} : lookup_section(p)
    \/ \E p \in {1, 2} : create_section(p)
    \/ \E p \in {1, 2} : lookup_standard(p)
    \/ \E p \in {1, 2} : create_standard(p)
    \/ \E p \in {1, 2} : get_indicator(p)
    \/ \E p \in {1, 2} : save_indicator(p)
    \/ \E p \in {1, 2} : deadlock_detected(p)
    \/ \E p \in {1, 2} : exit_atomic(p)
    \/ \E coordinates \in ManualCoordinates :
           create_indicator(coordinates[1], coordinates[2], coordinates[3])

SpecImportConc == ImportConcInit /\ [][ImportConcNext]_vars

(***************************************************************************)
(* Claims on concurrent imports (SpecImportConc)                           *)
(***************************************************************************)
\* no two rows of the indicator table have the same indicator_key
IndicatorKeysDistinct ==
    \A a \in indicators, b \in indicators : a.indicator_key = b.indicator_key => a = b

\* both imports are over, they ran at the same time, and each found no
\* indicator for the key when it looked
BothImportedUnseen(indicator_key) ==
    /\ txn[1].pc = "done" /\ txn[2].pc = "done"
    /\ txn[1].overlapped /\ txn[2].overlapped
    /\ indicator_key \in txn[1].unseen \cap txn[2].unseen

\* C27: no two indicators share an indicator_key, and when two imports that
\* ran at the same time have both processed a row whose key neither found in
\* the table, the table has exactly one indicator with that key once both are
\* over.
C27_OneIndicatorPerKey ==
    /\ IndicatorKeysDistinct
    /\ \A indicator_key \in txn[1].unseen \cup txn[2].unseen :
           BothImportedUnseen(indicator_key)
           => Cardinality({ ind \in indicators : ind.indicator_key = indicator_key }) = 1

====
